---- MODULE Spec2Model ----
(***************************************************************************)
(* A model of the Copper pack for Coda (ontl/coda-copper): the identifier  *)
(* resolver, the record enrichers, the paginated sync functions and the    *)
(* action formulas, as they are written in formulas.ts, the helpers        *)
(* module and the constants module.                                        *)
(*                                                                         *)
(* JavaScript strings are TLA+ strings; a character of a string s is the   *)
(* one-character string SubSeq(s, i, i).                                   *)
(***************************************************************************)
EXTENDS Integers, Sequences, FiniteSets, TLC

VARIABLES
    rcall,      \* resolver: the call under evaluation (function and inputs)
    rpc,        \* resolver: "start", "built" (url generated) or "done"
    rurl,       \* resolver: the url generated by getCopperUrl ("" before)
    rret,       \* resolver: the outcome of the call
    impl,       \* sync: the revision of the sync functions that runs
    table,      \* sync: the sync table ("opportunities", "companies", "people")
    total,      \* sync: the number of records the CRM holds for the table
    spc,        \* sync: "start", "returned", "finished" or "failed"
    cont,       \* sync: the continuation the host holds (the last one returned)
    req,        \* sync: the page requests issued so far, oldest first
    result,     \* sync: the result array of the last invocation
    ecall,      \* enrich: the call under evaluation (context, record type, raw record)
    epc,        \* enrich: "start" or "done"
    eret,       \* enrich: whether the call returned or threw
    eout,       \* enrich: the record the call returned
    eraw,       \* enrich: the raw record object passed to the call, as it is now
    acall,      \* action: the action formula that runs and its parameters
    apc,        \* action: where the execution stands (the await it is at)
    alog,       \* action: the requests issued so far, oldest first
    aerr,       \* action: the error the execution ended with
    aout,       \* action: the record the execution returned
    recordId,   \* action: the identifier the execution resolved
    crm,        \* action: the record as the CRM holds it
    mutated,    \* action: the CRM has applied a PUT of this execution
    hcall,      \* helper: the helper function under evaluation and its arguments
    hpc,        \* helper: "start" or "done"
    hret,       \* helper: the outcome of the call
    tinv,       \* tags: the two executions of addOrRemoveTag, each with its position
    tserver,    \* tags: the tag list of the record as the CRM holds it
    tcache,     \* tags: the response the fetcher cache holds for the GET of the record
    tnow,       \* tags: the time, in seconds
    tlog,       \* tags: the requests that reached the CRM, oldest first
    fcall,      \* fetches: the invocation (sync function or fetching enricher) and its input
    fpc,        \* fetches: "fetching", "done" or "failed"
    fslots,     \* fetches: the results array of Promise.all, one slot per fetch
    farrivals,  \* fetches: the fetches that have completed, in the order of completion
    fout,       \* fetches: what the invocation returned
    ocrm,       \* earlier sync: the opportunities the CRM holds (how many, which have a company)
    opc,        \* earlier sync: "start", "returned" or "failed"
    ocont,      \* earlier sync: the continuation the host holds
    olog,       \* earlier sync: the requests issued so far, each with its invocation
    oresult     \* earlier sync: the result array of the last invocation

resolverVars == <<rcall, rpc, rurl, rret>>

syncVars == <<impl, table, total, spc, cont, req, result>>

enrichVars == <<ecall, epc, eret, eout, eraw>>

actionVars == <<acall, apc, alog, aerr, aout, recordId, crm, mutated>>

helperVars == <<hcall, hpc, hret>>

tagVars == <<tinv, tserver, tcache, tnow, tlog>>

fetchVars == <<fcall, fpc, fslots, farrivals, fout>>

earlierVars == <<ocrm, opc, ocont, olog, oresult>>

vars == <<rcall, rpc, rurl, rret, impl, table, total, spc, cont, req, result,
          ecall, epc, eret, eout, eraw, acall, apc, alog, aerr, aout, recordId, crm,
          mutated, hcall, hpc, hret, tinv, tserver, tcache, tnow, tlog,
          fcall, fpc, fslots, farrivals, fout, ocrm, opc, ocont, olog, oresult>>

(***************************************************************************)
(* Strings                                                                 *)
(***************************************************************************)
CharAt(s, i) == SubSeq(s, i, i)

Digits == {"0", "1", "2", "3", "4", "5", "6", "7", "8", "9"}

\* A line terminator is the only character the regular expression "." refuses.
LineTerminators == {"\n", "\r"}

\* s has the literal lit at position i (1-based)
HasAt(s, i, lit) ==
    /\ i >= 1
    /\ i + Len(lit) - 1 <= Len(s)
    /\ SubSeq(s, i, i + Len(lit) - 1) = lit

\* the length of the longest run of digits of s that starts at position i
DigitRun(s, i) ==
    CHOOSE k \in 0..(Len(s) + 1) :
        /\ i + k - 1 <= Len(s)
        /\ \A j \in i..(i + k - 1) : CharAt(s, j) \in Digits
        /\ (i + k > Len(s) \/ CharAt(s, i + k) \notin Digits)

\* lit occurs somewhere in s
Contains(s, lit) == \E i \in 1..(Len(s) + 1) : HasAt(s, i, lit)

LowerLetters == "abcdefghijklmnopqrstuvwxyz"

UpperLetters == "ABCDEFGHIJKLMNOPQRSTUVWXYZ"

\* the position of the character c in the alphabet, 0 when it is not in it
LetterIn(alphabet, c) ==
    IF \E i \in 1..Len(alphabet) : CharAt(alphabet, i) = c
    THEN CHOOSE i \in 1..Len(alphabet) : CharAt(alphabet, i) = c
    ELSE 0

RECURSIVE toUpperCase(_)
toUpperCase(s) ==
    IF s = "" THEN ""
    ELSE LET c == CharAt(s, 1)
             i == LetterIn(LowerLetters, c)
         IN  (IF i = 0 THEN c ELSE CharAt(UpperLetters, i))
                \o toUpperCase(SubSeq(s, 2, Len(s)))

RECURSIVE toLowerCase(_)
toLowerCase(s) ==
    IF s = "" THEN ""
    ELSE LET c == CharAt(s, 1)
             i == LetterIn(UpperLetters, c)
         IN  (IF i = 0 THEN c ELSE CharAt(LowerLetters, i))
                \o toLowerCase(SubSeq(s, 2, Len(s)))

\* list.join(separator)
RECURSIVE Join(_, _)
Join(list, separator) ==
    IF Len(list) = 0 THEN ""
    ELSE IF Len(list) = 1 THEN list[1]
    ELSE list[1] \o separator \o Join(Tail(list), separator)

(***************************************************************************)
(* Outcomes of a synchronous call: a returned value or a thrown error.     *)
(***************************************************************************)
Null == "<null>"            \* the JavaScript null, where a string is expected

Returned(v) == [threw |-> FALSE, kind |-> "", message |-> "", value |-> v]

Thrown(k, m, v) == [threw |-> TRUE, kind |-> k, message |-> m, value |-> v]

NoId == [id |-> "", type |-> ""]

UserVisibleError(m) == Thrown("UserVisibleError", m, NoId)

(***************************************************************************)
(* constants module                                                        *)
(***************************************************************************)
PAGE_SIZE == 50

STATUS_OPTIONS == <<"Open", "Won", "Lost", "Abandoned">>

RECORD_TYPES ==
    << [primary |-> "person",      plural |-> "people",        webUrl |-> "contact"],
       [primary |-> "company",     plural |-> "companies",     webUrl |-> "organization"],
       [primary |-> "opportunity", plural |-> "opportunities", webUrl |-> "deal"] >>

\* the alternation (contact|deal|organization) of copperRecordUrlRegex
UrlTokens == <<"contact", "deal", "organization">>

\* "/app.copper.com/companies/[0-9]+/app#/" matched at position i: the
\* position right after it, or 0 when it does not match there.
UrlHeadEnd(s, i) ==
    LET d == DigitRun(s, i + 26)
    IN  IF /\ HasAt(s, i, "/app")
           /\ i + 4 <= Len(s) /\ CharAt(s, i + 4) \notin LineTerminators
           /\ HasAt(s, i + 5, "copper")
           /\ i + 11 <= Len(s) /\ CharAt(s, i + 11) \notin LineTerminators
           /\ HasAt(s, i + 12, "com/companies/")
           /\ d >= 1
           /\ HasAt(s, i + 26 + d, "/app#/")
        THEN i + 26 + d + 6
        ELSE 0

\* "(contact|deal|organization)/([0-9]{5,})" matched at position p: the
\* index of the alternative in UrlTokens, or 0 when it does not match there.
UrlTokenAt(s, p) ==
    LET hits == {k \in 1..Len(UrlTokens) :
                    /\ HasAt(s, p, UrlTokens[k] \o "/")
                    /\ DigitRun(s, p + Len(UrlTokens[k]) + 1) >= 5}
    IN  IF hits = {} THEN 0 ELSE CHOOSE k \in hits : \A m \in hits : k <= m

\* copperRecordUrlRegex.exec(s): the leftmost match, ".*" and the digit
\* groups greedy. matched is FALSE when exec returns null.
copperRecordUrlRegexExec(s) ==
    LET ends(h) == {p \in h..Len(s) :
                      /\ \A j \in h..(p - 1) : CharAt(s, j) \notin LineTerminators
                      /\ UrlTokenAt(s, p) # 0}
        starts == {i \in 1..Len(s) :
                     /\ UrlHeadEnd(s, i) # 0
                     /\ ends(UrlHeadEnd(s, i)) # {}}
        groups(p, tok) ==
            [matched |-> TRUE, g1 |-> tok,
             g2 |-> SubSeq(s, p + Len(tok) + 1,
                           p + Len(tok) + DigitRun(s, p + Len(tok) + 1))]
        tokenAt(p) == groups(p, UrlTokens[UrlTokenAt(s, p)])
        lastOf(e) == tokenAt(CHOOSE a \in e : \A b \in e : a >= b)
        matchFrom(i) == lastOf(ends(UrlHeadEnd(s, i)))
        firstOf(st) ==
            IF st = {}
            THEN [matched |-> FALSE, g1 |-> "", g2 |-> ""]
            ELSE matchFrom(CHOOSE a \in st : \A b \in st : a <= b)
    IN  firstOf(starts)

\* a slip in the quantifier: {4,} instead of {5,}
copperIdRegexTest_FourDigits(s) ==
    /\ Len(s) >= 4
    /\ \A j \in 1..Len(s) : CharAt(s, j) \in Digits

\* new RegExp("^[0-9]{5,}$").test(s)
copperIdRegexTest(s) ==
    /\ Len(s) >= 5
    /\ \A j \in 1..Len(s) : CharAt(s, j) \in Digits

(***************************************************************************)
(* helpers module: identifier resolver                                     *)
(***************************************************************************)
\* a slip in the template: the "#" of the fragment is left out
getCopperUrl_NoFragment(copperAccountId, entityType, entityId) ==
    "https://app.copper.com/companies/" \o copperAccountId \o "/app/"
        \o entityType \o "/" \o entityId

getCopperUrl(copperAccountId, entityType, entityId) ==
    "https://app.copper.com/companies/" \o copperAccountId \o "/app#/"
        \o entityType \o "/" \o entityId

getIdFromUrlOrId(idOrUrl) ==
    LET typeOf(webUrl) ==
            RECORD_TYPES[CHOOSE a \in 1..Len(RECORD_TYPES) :
                            /\ RECORD_TYPES[a].webUrl = webUrl
                            /\ \A b \in 1..(a - 1) :
                                   RECORD_TYPES[b].webUrl # webUrl].primary
        resolved(matches) ==
            IF matches.matched
            THEN Returned([id |-> matches.g2, type |-> typeOf(matches.g1)])
            ELSE UserVisibleError("Invalid Copper ID or URL")
    IN  IF copperIdRegexTest(idOrUrl)
        THEN Returned([id |-> idOrUrl, type |-> Null])
        ELSE resolved(copperRecordUrlRegexExec(idOrUrl))

\* a slip: the article does not depend on the first letter
addIndefiniteArticle_AlwaysA(word) == "a" \o " " \o word

addIndefiniteArticle(word) ==
    LET vowels == "aeiou"
        article == IF Contains(vowels, CharAt(word, 1)) THEN "an" ELSE "a"
    IN  article \o " " \o word

\* recordType && ... : null and the empty string are falsy
checkRecordIdType(recordType, expectedType) ==
    IF recordType # Null /\ recordType # "" /\ recordType # expectedType
    THEN UserVisibleError("Expected " \o addIndefiniteArticle(expectedType)
                            \o ", but got " \o addIndefiniteArticle(recordType))
    ELSE Returned(NoId)


(***************************************************************************)
(* JavaScript values.  A scalar is [t, n, s]: its type, its number (for a  *)
(* string: the number it converts to, -1 when it is not a numeral) and its *)
(* text.  An array is [t, items], an object [t, fields]; a record of the   *)
(* CRM is a function from its keys to values.                              *)
(***************************************************************************)
Undef == [t |-> "undefined", n |-> 0, s |-> ""]

JNull == [t |-> "null", n |-> 0, s |-> ""]

JFalse == [t |-> "boolean", n |-> 0, s |-> "false"]

JTrue == [t |-> "boolean", n |-> 1, s |-> "true"]

Num(n) == [t |-> "number", n |-> n, s |-> ""]

Str(s) == [t |-> "string", n |-> -1, s |-> s]

NumStr(n) == [t |-> "string", n |-> n, s |-> ToString(n)]

Arr(items) == [t |-> "array", items |-> items]

Obj(fields) == [t |-> "object", fields |-> fields]

\* if (v), v && ..., v || ...
Truthy(v) ==
    CASE v.t \in {"undefined", "null"} -> FALSE
      [] v.t = "number" -> v.n # 0
      [] v.t = "boolean" -> v.n # 0
      [] v.t = "string" -> v.s # ""
      [] OTHER -> TRUE

\* a == b, for scalars
LooseEq(a, b) ==
    CASE a.t \in {"undefined", "null"} -> b.t \in {"undefined", "null"}
      [] b.t \in {"undefined", "null"} -> FALSE
      [] a.t = b.t -> a = b
      [] a.t = "number" /\ b.t = "string" -> b.n # -1 /\ a.n = b.n
      [] a.t = "string" /\ b.t = "number" -> a.n # -1 /\ a.n = b.n
      [] OTHER -> FALSE

\* a === b, for scalars
StrictEq(a, b) == a = b

\* `${v}` and the name of the property that obj[v] reads or writes
ToText(v) ==
    CASE v.t = "undefined" -> "undefined"
      [] v.t = "null" -> "null"
      [] v.t = "number" -> ToString(v.n)
      [] OTHER -> v.s

\* record.key: undefined when the record has no such key
Get(record, key) == IF key \in DOMAIN record THEN record[key] ELSE Undef

\* record.key = value
Put(record, key, value) ==
    [k \in (DOMAIN record) \cup {key} |-> IF k = key THEN value ELSE record[k]]

\* Object.assign(target, source)
Assign(target, source) ==
    [k \in (DOMAIN target) \cup (DOMAIN source) |->
        IF k \in DOMAIN source THEN source[k] ELSE target[k]]

\* list.find(Test): the index of the first element that passes, 0 for undefined
FindFirst(list, Test(_)) ==
    LET hits == {i \in 1..Len(list) : Test(list[i])}
    IN  IF hits = {} THEN 0 ELSE CHOOSE i \in hits : \A j \in hits : i <= j

\* list.find(x => x.id == id)?.name
NameById(list, id) ==
    LET i == FindFirst(list, LAMBDA x : LooseEq(x.id, id))
    IN  IF i = 0 THEN Undef ELSE list[i].name

TypeError(m) == [threw |-> TRUE, kind |-> "TypeError", message |-> m]

EnrichReturned == [threw |-> FALSE, kind |-> "", message |-> ""]

NoRecord == [none |-> Undef]

(***************************************************************************)
(* schemas module: the properties of the three static schemas              *)
(***************************************************************************)
CompanySchema ==
    << [key |-> "companyName", fromKey |-> "name"],
       [key |-> "fullAddress", fromKey |-> ""],
       [key |-> "assignee", fromKey |-> ""],
       [key |-> "tags", fromKey |-> ""],
       [key |-> "copperUrl", fromKey |-> "url"],
       [key |-> "details", fromKey |-> ""],
       [key |-> "phoneNumbers", fromKey |-> "phone_numbers"],
       [key |-> "emailDomain", fromKey |-> "email_domain"],
       [key |-> "interactionCount", fromKey |-> "interaction_count"],
       [key |-> "socials", fromKey |-> ""],
       [key |-> "websites", fromKey |-> ""],
       [key |-> "street", fromKey |-> "address.street"],
       [key |-> "city", fromKey |-> "address.city"],
       [key |-> "state", fromKey |-> "address.state"],
       [key |-> "postalCode", fromKey |-> "address.postal_code"],
       [key |-> "country", fromKey |-> "address.country"],
       [key |-> "dateCreated", fromKey |-> "date_created"],
       [key |-> "dateModified", fromKey |-> "date_modified"],
       [key |-> "contactTypeId", fromKey |-> "contact_type_id"],
       [key |-> "assigneeId", fromKey |-> "assignee_id"],
       [key |-> "companyId", fromKey |-> "id"] >>

PersonSchema ==
    << [key |-> "fullName", fromKey |-> "name"],
       [key |-> "title", fromKey |-> ""],
       [key |-> "company", fromKey |-> ""],
       [key |-> "assignee", fromKey |-> ""],
       [key |-> "copperUrl", fromKey |-> "url"],
       [key |-> "tags", fromKey |-> ""],
       [key |-> "contactType", fromKey |-> ""],
       [key |-> "fullAddress", fromKey |-> ""],
       [key |-> "details", fromKey |-> ""],
       [key |-> "primaryEmail", fromKey |-> ""],
       [key |-> "emails", fromKey |-> ""],
       [key |-> "phoneNumbers", fromKey |-> ""],
       [key |-> "socials", fromKey |-> ""],
       [key |-> "websites", fromKey |-> ""],
       [key |-> "prefix", fromKey |-> ""],
       [key |-> "firstName", fromKey |-> "first_name"],
       [key |-> "middleName", fromKey |-> "middle_name"],
       [key |-> "lastName", fromKey |-> "last_name"],
       [key |-> "suffix", fromKey |-> ""],
       [key |-> "street", fromKey |-> "address.street"],
       [key |-> "city", fromKey |-> "address.city"],
       [key |-> "state", fromKey |-> "address.state"],
       [key |-> "postalCode", fromKey |-> "address.postal_code"],
       [key |-> "country", fromKey |-> "address.country"],
       [key |-> "interactionCount", fromKey |-> "interaction_count"],
       [key |-> "dateCreated", fromKey |-> "date_created"],
       [key |-> "dateModified", fromKey |-> "date_modified"],
       [key |-> "personId", fromKey |-> "id"] >>

OpportunitySchema ==
    << [key |-> "opportunityName", fromKey |-> "name"],
       [key |-> "primaryContact", fromKey |-> ""],
       [key |-> "company", fromKey |-> ""],
       [key |-> "status", fromKey |-> ""],
       [key |-> "assignee", fromKey |-> ""],
       [key |-> "pipelineStage", fromKey |-> ""],
       [key |-> "closeDate", fromKey |-> "close_date"],
       [key |-> "monetaryValue", fromKey |-> "monetary_value"],
       [key |-> "copperUrl", fromKey |-> "url"],
       [key |-> "priority", fromKey |-> ""],
       [key |-> "tags", fromKey |-> ""],
       [key |-> "customerSource", fromKey |-> ""],
       [key |-> "details", fromKey |-> ""],
       [key |-> "lossReason", fromKey |-> ""],
       [key |-> "pipeline", fromKey |-> ""],
       [key |-> "interactionCount", fromKey |-> "interaction_count"],
       [key |-> "winProbability", fromKey |-> "win_probability"],
       [key |-> "dateLastContacted", fromKey |-> "date_last_contacted"],
       [key |-> "dateCreated", fromKey |-> "date_created"],
       [key |-> "dateModified", fromKey |-> "date_modified"],
       [key |-> "primaryContactId", fromKey |-> "primary_contact_id"],
       [key |-> "assigneeId", fromKey |-> "assignee_id"],
       [key |-> "companyId", fromKey |-> "company_id"],
       [key |-> "companyName", fromKey |-> "company_name"],
       [key |-> "opportunityId", fromKey |-> "id"] >>

(***************************************************************************)
(* helpers module: record enrichment                                       *)
(***************************************************************************)
\* string[0].toUpperCase() + string.slice(1).toLowerCase(); string[0] is
\* undefined for the empty string and the call throws a TypeError
titleCase(string) ==
    toUpperCase(CharAt(string, 1)) \o toLowerCase(SubSeq(string, 2, Len(string)))

\* list.slice(0, -1)
AllButLast(list) ==
    IF Len(list) = 0 THEN <<>> ELSE SubSeq(list, 1, Len(list) - 1)

\* list.slice(-1)
LastOnly(list) == IF Len(list) = 0 THEN <<>> ELSE <<list[Len(list)]>>

\* with the default conjunction "or"; the array list.slice(-1) is converted
\* to a string by the "+"
humanReadableList(list) ==
    IF Len(list) = 1 THEN list[1]
    ELSE IF Len(list) = 2 THEN Join(list, " or ")
    ELSE Join(AllButLast(list), ", ") \o ", or " \o Join(LastOnly(list), ",")

getRecordApiEndpoint(recordType, id) ==
    LET i == FindFirst(RECORD_TYPES, LAMBDA type : type.primary = recordType)
    IN  (IF i = 0 THEN "undefined" ELSE RECORD_TYPES[i].plural) \o "/" \o id

\* concatenatedAddress.slice(0, -2)
DropLastTwo(s) == IF Len(s) <= 2 THEN "" ELSE SubSeq(s, 1, Len(s) - 2)

concatenateAddress(address) ==
    LET part(key) ==
            IF address.t = "object" /\ Truthy(Get(address.fields, key))
            THEN ToText(Get(address.fields, key)) \o ", "
            ELSE ""
    IN  DropLastTwo(part("street") \o part("city") \o part("state")
                      \o part("country") \o part("postal_code"))

\* the value an entry contributes: computed_value || value
customFieldValue(entry) ==
    IF Truthy(Get(entry, "computed_value"))
    THEN Get(entry, "computed_value")
    ELSE Get(entry, "value")

\* the property name an entry is stored under: the name of the definition
\* with the same id (===), the text "undefined" when there is none
customFieldName(customFieldDefinitions, entry) ==
    LET i == FindFirst(customFieldDefinitions,
                       LAMBDA d : StrictEq(d.id, Get(entry, "custom_field_definition_id")))
    IN  IF i = 0 THEN ToText(Undef) ELSE ToText(customFieldDefinitions[i].name)

prepareCustomFieldsOnRecord(customFieldDefinitions, customFieldsOnRecord) ==
    LET names == {customFieldName(customFieldDefinitions, customFieldsOnRecord[i]) :
                    i \in 1..Len(customFieldsOnRecord)}
        lastOf(name) ==
            CHOOSE i \in 1..Len(customFieldsOnRecord) :
                /\ customFieldName(customFieldDefinitions, customFieldsOnRecord[i]) = name
                /\ \A j \in (i + 1)..Len(customFieldsOnRecord) :
                      customFieldName(customFieldDefinitions, customFieldsOnRecord[j]) # name
    IN  [name \in names |-> customFieldValue(customFieldsOnRecord[lastOf(name)])]

\* the keys pruneObjectToSchema keeps for a schema: prop.fromKey || key
schemaSourceKeys(schema) ==
    {IF schema[i].fromKey # "" THEN schema[i].fromKey ELSE schema[i].key :
        i \in 1..Len(schema)}

pruneObjectToSchema(record, schema, additionalKeys) ==
    LET keys == schemaSourceKeys(schema) \cup additionalKeys
    IN  [k \in (DOMAIN record) \cap keys |-> record[k]]

\* { copperUserId, email, name } of the user with the record's assignee_id
assigneeOf(users, record) ==
    LET i == FindFirst(users, LAMBDA u : LooseEq(u.id, Get(record, "assignee_id")))
    IN  Obj([copperUserId |-> Get(record, "assignee_id"),
             email |-> IF i = 0 THEN Undef ELSE users[i].email,
             name |-> IF i = 0 THEN Undef ELSE users[i].name])

\* the record with its custom fields merged in, when both the definitions
\* and the record's custom_fields are there
withCustomFields(record, customFieldDefinitions) ==
    IF Truthy(customFieldDefinitions) /\ Truthy(Get(record, "custom_fields"))
    THEN Assign(record, prepareCustomFieldsOnRecord(
                            customFieldDefinitions.items,
                            Get(record, "custom_fields").items))
    ELSE record

customFieldKeys(record, customFieldDefinitions) ==
    DOMAIN prepareCustomFieldsOnRecord(customFieldDefinitions.items,
                                       Get(record, "custom_fields").items)

\* the opportunity as enrichOpportunityResponse has it before pruning
opportunityEnriched(opportunity, copperAccountId, users, pipelines, customerSources, lossReasons, customFieldDefinitions, withReferences) ==
    LET o1 == Put(opportunity, "url",
                  Str(getCopperUrl(copperAccountId, "deal",
                                   ToText(Get(opportunity, "id")))))
        o2 == Put(o1, "assignee", assigneeOf(users, opportunity))
        p == FindFirst(pipelines,
                       LAMBDA x : LooseEq(x.id, Get(opportunity, "pipeline_id")))
        o3 == Put(o2, "pipeline", IF p = 0 THEN Undef ELSE pipelines[p].name)
        o4 == Put(o3, "pipelineStage",
                  IF p = 0 THEN Undef
                  ELSE NameById(pipelines[p].stages,
                                Get(opportunity, "pipeline_stage_id")))
        o5 == Put(o4, "customerSource",
                  NameById(customerSources, Get(opportunity, "customer_source_id")))
        o6 == Put(o5, "lossReason",
                  NameById(lossReasons, Get(opportunity, "loss_reason_id")))
        o7 == withCustomFields(o6, customFieldDefinitions)
        o8 == IF withReferences /\ Truthy(Get(o7, "company_id"))
              THEN Put(o7, "company", Obj([id |-> Get(o7, "company_id"),
                                          name |-> Get(o7, "company_name")]))
              ELSE o7
    IN  IF withReferences /\ Truthy(Get(o8, "primary_contact_id"))
        THEN Put(o8, "primaryContact",
                 Obj([id |-> Get(o8, "primary_contact_id"),
                      fullName |-> Str("Not found")]))
        ELSE o8

\* customFields is declared without a value: Object.keys(customFields) throws
\* when the custom fields were not prepared
enrichOpportunityResponse(opportunity, copperAccountId, users, pipelines, customerSources, lossReasons, customFieldDefinitions, withReferences) ==
    IF Truthy(customFieldDefinitions) /\ Truthy(Get(opportunity, "custom_fields"))
    THEN [ret |-> EnrichReturned,
          out |-> pruneObjectToSchema(
                      opportunityEnriched(opportunity, copperAccountId, users,
                                          pipelines, customerSources, lossReasons,
                                          customFieldDefinitions, withReferences),
                      OpportunitySchema,
                      customFieldKeys(opportunity, customFieldDefinitions))]
    ELSE [ret |-> TypeError("Cannot convert undefined or null to object"),
          out |-> NoRecord]

\* person.emails.find(e => e.category === "work")?.email || person.emails[0]?.email
primaryEmailOf(emails) ==
    LET w == FindFirst(emails, LAMBDA e : StrictEq(e.category, Str("work")))
    IN  IF w # 0 /\ Truthy(emails[w].email) THEN emails[w].email
        ELSE IF Len(emails) > 0 THEN emails[1].email
        ELSE Undef

personEnriched(person, copperAccountId, users, contactTypes, customFieldDefinitions) ==
    LET p1 == Put(person, "fullAddress",
                  Str(concatenateAddress(Get(person, "address"))))
        p2 == Put(p1, "url",
                  Str(getCopperUrl(copperAccountId, "contact",
                                   ToText(Get(person, "id")))))
        p3 == Put(p2, "primaryEmail", primaryEmailOf(Get(person, "emails").items))
        p4 == IF Truthy(Get(p3, "company_id"))
              THEN Put(p3, "company", Obj([id |-> Get(p3, "company_id"),
                                          name |-> Get(p3, "company_name")]))
              ELSE p3
        p5 == IF Truthy(users)
              THEN Put(p4, "assignee", assigneeOf(users.items, person))
              ELSE p4
        p6 == IF Truthy(contactTypes)
              THEN Put(p5, "contactType",
                       NameById(contactTypes.items, Get(person, "contact_type_id")))
              ELSE p5
    IN  withCustomFields(p6, customFieldDefinitions)

\* person.emails.find throws when the record has no emails
enrichPersonResponse(person, copperAccountId, users, contactTypes, customFieldDefinitions) ==
    IF Get(person, "emails").t # "array"
    THEN [ret |-> TypeError("Cannot read properties of undefined (reading 'find')"),
          out |-> NoRecord]
    ELSE [ret |-> EnrichReturned,
          out |-> pruneObjectToSchema(
                      personEnriched(person, copperAccountId, users, contactTypes,
                                     customFieldDefinitions),
                      PersonSchema,
                      IF Truthy(customFieldDefinitions)
                            /\ Truthy(Get(person, "custom_fields"))
                      THEN customFieldKeys(person, customFieldDefinitions)
                      ELSE {})]

companyEnriched(company, copperAccountId, users, customFieldDefinitions) ==
    LET c1 == Put(company, "url",
                  Str(getCopperUrl(copperAccountId, "organization",
                                   ToText(Get(company, "id")))))
        c2 == Put(c1, "fullAddress",
                  Str(concatenateAddress(Get(company, "address"))))
        c3 == IF Truthy(users)
              THEN Put(c2, "assignee", assigneeOf(users.items, company))
              ELSE c2
    IN  withCustomFields(c3, customFieldDefinitions)

enrichCompanyResponse(company, copperAccountId, users, customFieldDefinitions) ==
    [ret |-> EnrichReturned,
     out |-> pruneObjectToSchema(
                 companyEnriched(company, copperAccountId, users,
                                 customFieldDefinitions),
                 CompanySchema,
                 IF Truthy(customFieldDefinitions)
                       /\ Truthy(Get(company, "custom_fields"))
                 THEN customFieldKeys(company, customFieldDefinitions)
                 ELSE {})]

(***************************************************************************)
(* Resolver calls.  The inputs of getIdFromUrlOrId are bare texts and      *)
(* texts assembled from the segments of a Copper web address.              *)
(***************************************************************************)
BareInputs == {"", "abc", "1234", "12345", "123456", "1234567", "12345a",
               "a12345", " 12345", "12345\n", "deal/12345"}

UrlHosts == {"https://app.copper.com", "app.copper.com",
             "https://app-copper.com", "https://app.copper.org"}

UrlAccounts == {"", "9", "1234", "x"}

UrlMids == {"", "browse/", "deal/11111/", "x\ny/"}

UrlTokenInputs == {"contact", "deal", "organization", "lead"}

UrlIds == {"1234", "12345", "123456"}

UrlSuffixes == {"", "?tab=1", "7"}

AccountIds == {"9", "1234", "1234567"}

RecordIds == {"12345", "123456", "1234567"}

RecordTypeNames == {"person", "company", "opportunity"}

UrlText(seg) ==
    seg.host \o "/companies/" \o seg.acct \o "/app#/" \o seg.mid
        \o seg.tok \o "/" \o seg.id \o seg.suf

NoSeg == [host |-> "", acct |-> "", mid |-> "", tok |-> "", id |-> "", suf |-> ""]

ResolverCalls ==
    {[fn |-> "getIdFromUrlOrId", form |-> "bare", input |-> b, seg |-> NoSeg,
      a |-> "", b |-> "", c |-> ""] : b \in BareInputs}
    \cup
    {[fn |-> "getIdFromUrlOrId", form |-> "url", input |-> UrlText(seg),
      seg |-> seg, a |-> "", b |-> "", c |-> ""] :
        seg \in [host : UrlHosts, acct : UrlAccounts, mid : UrlMids,
                 tok : UrlTokenInputs, id : UrlIds, suf : UrlSuffixes]}
    \cup
    \* a: account id, b: record type, c: record id
    {[fn |-> "getCopperUrl", form |-> "", input |-> "", seg |-> NoSeg,
      a |-> x[1], b |-> x[2], c |-> x[3]] :
        x \in AccountIds \X RecordTypeNames \X RecordIds}
    \cup
    \* a: the type found by the resolver, b: the type the caller expects
    {[fn |-> "checkRecordIdType", form |-> "", input |-> "", seg |-> NoSeg,
      a |-> x[1], b |-> x[2], c |-> ""] :
        x \in (RecordTypeNames \cup {Null}) \X RecordTypeNames}

\* the web token each enrich function passes to getCopperUrl
webUrlToken(recordType) ==
    CASE recordType = "opportunity" -> "deal"
      [] recordType = "person" -> "contact"
      [] recordType = "company" -> "organization"

NoError == [kind |-> "", message |-> ""]

NoCall == [action |-> "", recordType |-> "", urlOrId |-> "", newStatus |-> "",
           lossReason |-> "", newStageName |-> "", assigneeEmail |-> "",
           tag |-> "", remove |-> FALSE]

\* the payload argument of callApi left out
NoPayload == [given |-> FALSE, entries |-> <<>>]

NoHelperCall == [fn |-> "", revision |-> "", address |-> Undef, list |-> <<>>, method |-> "", endpoint |-> "", payload |-> NoPayload]

HelperIdle ==
    /\ hcall = NoHelperCall
    /\ hpc = "idle"
    /\ hret = Returned("")

\* no continuation: the first invocation of a sync
NoMaps == [present |-> FALSE, pageNumber |-> 0, userEmails |-> NoRecord, userNames |-> NoRecord]

EarlierIdle ==
    /\ ocrm = [total |-> 0, companies |-> ""]
    /\ opc = "idle"
    /\ ocont = NoMaps
    /\ olog = <<>>
    /\ oresult = <<>>

NoFetchCall == [fn |-> "", type |-> "", body |-> NoRecord]

FetchIdle ==
    /\ fcall = NoFetchCall
    /\ fpc = "idle"
    /\ fslots = <<>>
    /\ farrivals = <<>>
    /\ fout = NoRecord

Invocations == {1, 2}

NoInvocation == [pc |-> "idle", tag |-> "", remove |-> FALSE, tags |-> <<>>, cached |-> FALSE, putsAtRead |-> 0, after |-> {}]

NoCacheEntry == [valid |-> FALSE, at |-> 0, tags |-> <<>>]

TagsIdle ==
    /\ tinv = [p \in Invocations |-> NoInvocation]
    /\ tserver = <<>>
    /\ tcache = NoCacheEntry
    /\ tnow = 0
    /\ tlog = <<>>

ActionIdle ==
    /\ acall = NoCall
    /\ apc = "idle"
    /\ alog = <<>>
    /\ aerr = NoError
    /\ aout = NoRecord
    /\ recordId = NoId
    /\ crm = NoRecord
    /\ mutated = FALSE

EnrichIdle ==
    /\ ecall = [ctx |-> "", type |-> "", raw |-> NoRecord]
    /\ epc = "idle"
    /\ eret = EnrichReturned
    /\ eout = NoRecord
    /\ eraw = NoRecord

SyncIdle ==
    /\ impl = "" /\ table = "" /\ total = 0 /\ spc = "idle"
    /\ cont = [kind |-> "undefined", hasPage |-> FALSE, pageNumber |-> 0]
    /\ req = <<>> /\ result = <<>>

ResolverIdle ==
    /\ rcall = [fn |-> "", form |-> "", input |-> "", seg |-> NoSeg,
                a |-> "", b |-> "", c |-> ""]
    /\ rpc = "idle"
    /\ rurl = ""
    /\ rret = Returned(NoId)

InitResolver ==
    /\ rcall \in ResolverCalls
    /\ rpc = "start"
    /\ rurl = ""
    /\ rret = Returned(NoId)
    /\ SyncIdle
    /\ EnrichIdle
    /\ ActionIdle
    /\ HelperIdle
    /\ TagsIdle
    /\ FetchIdle
    /\ EarlierIdle

\* a getter or an action resolves the identifier the user supplied
Resolve ==
    /\ rpc = "start"
    /\ rcall.fn = "getIdFromUrlOrId"
    /\ rret' = getIdFromUrlOrId(rcall.input)
    /\ rpc' = "done"
    /\ UNCHANGED <<rcall, rurl>>
    /\ UNCHANGED syncVars
    /\ UNCHANGED enrichVars
    /\ UNCHANGED actionVars
    /\ UNCHANGED helperVars
    /\ UNCHANGED tagVars
    /\ UNCHANGED fetchVars
    /\ UNCHANGED earlierVars

\* an enrich function writes the url field of a record
BuildUrl ==
    /\ rpc = "start"
    /\ rcall.fn = "getCopperUrl"
    /\ rurl' = getCopperUrl(rcall.a, webUrlToken(rcall.b), rcall.c)
    /\ rpc' = "built"
    /\ UNCHANGED <<rcall, rret>>
    /\ UNCHANGED syncVars
    /\ UNCHANGED enrichVars
    /\ UNCHANGED actionVars
    /\ UNCHANGED helperVars
    /\ UNCHANGED tagVars
    /\ UNCHANGED fetchVars
    /\ UNCHANGED earlierVars

\* ... and the user hands that url back to a getter or an action
ResolveUrl ==
    /\ rpc = "built"
    /\ rret' = getIdFromUrlOrId(rurl)
    /\ rpc' = "done"
    /\ UNCHANGED <<rcall, rurl>>
    /\ UNCHANGED syncVars
    /\ UNCHANGED enrichVars
    /\ UNCHANGED actionVars
    /\ UNCHANGED helperVars
    /\ UNCHANGED tagVars
    /\ UNCHANGED fetchVars
    /\ UNCHANGED earlierVars

CheckType ==
    /\ rpc = "start"
    /\ rcall.fn = "checkRecordIdType"
    /\ rret' = checkRecordIdType(rcall.a, rcall.b)
    /\ rpc' = "done"
    /\ UNCHANGED <<rcall, rurl>>
    /\ UNCHANGED syncVars
    /\ UNCHANGED enrichVars
    /\ UNCHANGED actionVars
    /\ UNCHANGED helperVars
    /\ UNCHANGED tagVars
    /\ UNCHANGED fetchVars
    /\ UNCHANGED earlierVars

NextResolver == Resolve \/ BuildUrl \/ ResolveUrl \/ CheckType

SpecResolver == InitResolver /\ [][NextResolver]_vars


(***************************************************************************)
(* Sync tables: the pagination protocol between the host and the sync      *)
(* functions.  impl "formulas" is formulas.ts, impl "helpers" the earlier  *)
(* revision of the same functions kept in helpers.ts.                      *)
(***************************************************************************)
MaxRecords == 101           \* the CRM holds at most this many records

MaxInvocations == 4         \* the host invokes a sync at most this often

Impls == {"formulas", "helpers"}

Tables == {"opportunities", "companies", "people"}

\* continuations: undefined, the empty object {} and {pageNumber: n}
NoContinuation == [kind |-> "undefined", hasPage |-> FALSE, pageNumber |-> 0]

EmptyObject == [kind |-> "object", hasPage |-> FALSE, pageNumber |-> 0]

PageContinuation(n) == [kind |-> "object", hasPage |-> TRUE, pageNumber |-> n]

\* the records the CRM holds are numbered 1..total in the sort order of the
\* search; a search returns the records of the requested page
searchPage(n, page_number, page_size) ==
    LET first == (page_number - 1) * page_size + 1
        last == IF page_number * page_size <= n THEN page_number * page_size ELSE n
    IN  IF first > last THEN <<>> ELSE [i \in 1..(last - first + 1) |-> first + i - 1]

\* (context.sync.continuation?.pageNumber as number) || 1
pageNumberOf(continuation) ==
    IF continuation.kind = "object" /\ continuation.hasPage
          /\ continuation.pageNumber # 0
    THEN continuation.pageNumber
    ELSE 1

\* response.body.map(enrich): one enriched record per raw record
enrichPage(body) == [i \in 1..Len(body) |-> [record |-> body[i], enriched |-> TRUE]]

EmptySlot == [record |-> 0, enriched |-> FALSE]

\* the result array after the full-page check: "list.length = PAGE_SIZE" of
\* the earlier revision is an assignment, which resizes the array
afterPageCheck(im, list) ==
    IF im = "helpers"
    THEN [i \in 1..PAGE_SIZE |-> IF i <= Len(list) THEN list[i] ELSE EmptySlot]
    ELSE list

\* the continuation a sync function returns
nextContinuation(im, tb, list, pageNumber) ==
    LET initial == IF tb = "opportunities" THEN EmptyObject ELSE NoContinuation
        fullPage == IF im = "helpers"
                    THEN PAGE_SIZE # 0      \* the value of the assignment
                    ELSE Len(list) = PAGE_SIZE
    IN  IF fullPage THEN PageContinuation(pageNumber + 1) ELSE initial

InitSync ==
    /\ impl \in Impls
    /\ table \in Tables
    /\ total \in 0..MaxRecords
    /\ spc = "start"
    /\ cont = NoContinuation
    /\ req = <<>>
    /\ result = <<>>
    /\ ResolverIdle
    /\ EnrichIdle
    /\ ActionIdle
    /\ HelperIdle
    /\ TagsIdle
    /\ FetchIdle
    /\ EarlierIdle

\* the host invokes the sync function: first without a continuation, then
\* with the continuation the previous invocation returned, as long as one
\* was returned
HostInvokes(tb) ==
    /\ table = tb
    /\ \/ spc = "start"
       \/ spc = "returned" /\ cont.kind = "object"
    /\ Len(req) < MaxInvocations

SyncBody ==
    LET pageNumber == pageNumberOf(cont)
        body == searchPage(total, pageNumber, PAGE_SIZE)
        list == enrichPage(body)
    IN  /\ req' = Append(req, [page_number |-> pageNumber,
                               page_size |-> PAGE_SIZE,
                               returned |-> Len(body)])
        /\ cont' = nextContinuation(impl, table, list, pageNumber)
        /\ result' = afterPageCheck(impl, list)
        /\ spc' = "returned"
        /\ UNCHANGED <<impl, table, total>>
        /\ UNCHANGED resolverVars
        /\ UNCHANGED enrichVars
        /\ UNCHANGED actionVars
        /\ UNCHANGED helperVars
        /\ UNCHANGED tagVars
        /\ UNCHANGED fetchVars
        /\ UNCHANGED earlierVars

syncOpportunities == HostInvokes("opportunities") /\ SyncBody

syncCompanies == HostInvokes("companies") /\ SyncBody

syncPeople == HostInvokes("people") /\ SyncBody

\* one of the fetches of an invocation fails: the invocation throws
SyncFails ==
    /\ \E tb \in Tables : HostInvokes(tb)
    /\ spc' = "failed"
    /\ UNCHANGED <<impl, table, total, cont, req, result>>
    /\ UNCHANGED resolverVars
    /\ UNCHANGED enrichVars
    /\ UNCHANGED actionVars
    /\ UNCHANGED helperVars
    /\ UNCHANGED tagVars
    /\ UNCHANGED fetchVars
    /\ UNCHANGED earlierVars

\* no continuation was returned: the host ends the sync
HostEndsSync ==
    /\ spc = "returned"
    /\ cont.kind = "undefined"
    /\ spc' = "finished"
    /\ UNCHANGED <<impl, table, total, cont, req, result>>
    /\ UNCHANGED resolverVars
    /\ UNCHANGED enrichVars
    /\ UNCHANGED actionVars
    /\ UNCHANGED helperVars
    /\ UNCHANGED tagVars
    /\ UNCHANGED fetchVars
    /\ UNCHANGED earlierVars

NextSync ==
    syncOpportunities \/ syncCompanies \/ syncPeople \/ SyncFails \/ HostEndsSync

SpecSync == InitSync /\ [][NextSync]_vars

\* the host keeps its part of the protocol: it invokes the sync function
\* again with each continuation it is given and ends the sync when it is
\* given none
SpecSyncLive == SpecSync /\ WF_vars(NextSync)

(***************************************************************************)
(* Enrichment calls: a raw record of the CRM is enriched for a sync table, *)
(* for a single-record getter or for the result of an action, against the  *)
(* reference datasets of the account.                                      *)
(***************************************************************************)
CopperAccountId == "9"

Users ==
    << [id |-> Num(11), name |-> Str("Ann"), email |-> Str("ann@x.co")],
       [id |-> Num(12), name |-> Str("Bob"), email |-> Str("bob@x.co")] >>

Pipelines ==
    << [id |-> Num(21), name |-> Str("Sales"),
        stages |-> << [id |-> Num(31), name |-> Str("Lead")],
                      [id |-> Num(32), name |-> Str("Closing")] >>],
       [id |-> Num(22), name |-> Str("Renewals"),
        stages |-> << [id |-> Num(33), name |-> Str("Due")] >>] >>

CustomerSources == << [id |-> Num(41), name |-> Str("Web")] >>

LossReasons ==
    << [id |-> Num(51), name |-> Str("Price")],
       [id |-> Num(52), name |-> Str("Features")] >>

ContactTypes == << [id |-> Num(91), name |-> Str("Customer")] >>

\* the names of custom fields are the account's choice: one of them is
\* "name", which is also a key of every record
CustomFieldDefinitions ==
    << [id |-> Num(81), name |-> Str("Region")],
       [id |-> Num(82), name |-> Str("Tier")],
       [id |-> Num(83), name |-> Str("name")] >>

NoKeys == [k \in {} |-> Undef]

\* the ways one optional key can appear on a raw record
OptionalKey(key, values, mayBeAbsent) ==
    {key :> v : v \in values} \cup (IF mayBeAbsent THEN {NoKeys} ELSE {})

CustomFieldEntry(id, value, computed) ==
    [custom_field_definition_id |-> Num(id), value |-> value,
     computed_value |-> computed]

\* custom_fields: absent, empty, with entries whose definition is known (81,
\* 82) and with an entry whose definition is not (89); computed_value a
\* text, 0, the empty string, false or not there; the id of the definition
\* a number, or the same id as a numeric string
RawCustomFields ==
    OptionalKey("custom_fields",
        {Arr(<<>>),
         Arr(<<CustomFieldEntry(81, Num(7), Str("North"))>>),
         Arr(<<CustomFieldEntry(89, Str("x"), Str("y"))>>),
         Arr(<<CustomFieldEntry(81, Num(7), Num(0)),
               CustomFieldEntry(82, Str("Gold"), Str(""))>>),
         Arr(<<CustomFieldEntry(81, Str("x"), JFalse)>>),
         Arr(<<CustomFieldEntry(83, Str("x"), Str("Custom"))>>),
         Arr(<<[custom_field_definition_id |-> NumStr(81), value |-> Str("x"),
                computed_value |-> Str("North")]>>),
         Arr(<<CustomFieldEntry(81, Num(7), Str("North")),
               CustomFieldEntry(89, Str("x"), Str("y")),
               CustomFieldEntry(82, Str("Gold"), Undef)>>)},
        TRUE)

RawAssignee ==
    OptionalKey("assignee_id", {JNull, Num(11), Num(99), NumStr(11)}, FALSE)

RawAddress ==
    OptionalKey("address",
        {Obj([street |-> Str("1 Main St"), city |-> Str("SF"), state |-> JNull,
              postal_code |-> Str("94105"), country |-> Str("")])},
        TRUE)

RawOpportunities ==
    {[id |-> Num(123456), name |-> Str("Deal"), status |-> Str("Open"),
      company_name |-> Str("Acme"), leads_converted_from |-> Arr(<<>>),
      pipeline_id |-> Num(pl[1]), pipeline_stage_id |-> Num(pl[2])]
        @@ a @@ cs @@ lr @@ co @@ pc @@ cf :
        pl \in {<<21, 31>>, <<21, 39>>, <<29, 31>>},
        a \in RawAssignee,
        cs \in OptionalKey("customer_source_id", {JNull, Num(41), Num(49)}, FALSE),
        lr \in OptionalKey("loss_reason_id", {JNull, Num(51), Num(59)}, FALSE),
        co \in OptionalKey("company_id", {JNull, Num(61)}, FALSE),
        pc \in OptionalKey("primary_contact_id", {JNull, Num(71)}, FALSE),
        cf \in RawCustomFields}

RawPeople ==
    {[id |-> Num(234567), name |-> Str("Pat Poe"), company_name |-> Str("Acme"),
      phone_numbers |-> Arr(<<>>)]
        @@ a @@ ct @@ co @@ em @@ ad @@ cf :
        a \in RawAssignee,
        ct \in OptionalKey("contact_type_id", {JNull, Num(91), Num(99)}, FALSE),
        co \in OptionalKey("company_id", {JNull, Num(61)}, FALSE),
        em \in OptionalKey("emails",
                 {Arr(<<>>),
                  Arr(<<[email |-> Str("p@work.co"), category |-> Str("work")]>>),
                  Arr(<<[email |-> Str("p@home.co"), category |-> Str("personal")],
                        [email |-> Str("p@work.co"), category |-> Str("work")]>>)},
                 TRUE),
        ad \in RawAddress,
        cf \in RawCustomFields}

RawCompanies ==
    {[id |-> Num(345678), name |-> Str("Acme"), primary_parent |-> JNull]
        @@ a @@ ct @@ ad @@ cf :
        a \in RawAssignee,
        ct \in OptionalKey("contact_type_id", {JNull, Num(91), Num(99)}, FALSE),
        ad \in RawAddress,
        cf \in RawCustomFields}

EnrichContexts == {"sync", "getter", "action"}

EnrichCalls ==
    {[ctx |-> c, type |-> "opportunity", raw |-> r] :
        c \in EnrichContexts, r \in RawOpportunities}
    \cup
    {[ctx |-> c, type |-> "person", raw |-> r] :
        c \in EnrichContexts, r \in RawPeople}
    \cup
    {[ctx |-> c, type |-> "company", raw |-> r] :
        c \in EnrichContexts, r \in RawCompanies}

\* the sync function passes true; the getter passes false and the fetching
\* enricher of the actions leaves the parameter at its default, false
withReferencesIn(ctx) == ctx = "sync"

InitEnrich ==
    /\ ecall \in EnrichCalls
    /\ epc = "start"
    /\ eret = EnrichReturned
    /\ eout = NoRecord
    /\ eraw = ecall.raw
    /\ ResolverIdle
    /\ SyncIdle
    /\ ActionIdle
    /\ HelperIdle
    /\ TagsIdle
    /\ FetchIdle
    /\ EarlierIdle

\* the person object when person.emails.find throws: fullAddress and url
\* are set, nothing else is
personBeforeEmails(person, copperAccountId) ==
    Put(Put(person, "fullAddress", Str(concatenateAddress(Get(person, "address")))),
        "url", Str(getCopperUrl(copperAccountId, "contact", ToText(Get(person, "id")))))

\* the call ends: its outcome, and the object it was given after the
\* assignments the enrich function made to it
EnrichDone(call, after) ==
    /\ eret' = call.ret
    /\ eout' = call.out
    /\ eraw' = after
    /\ epc' = "done"
    /\ UNCHANGED ecall
    /\ UNCHANGED resolverVars
    /\ UNCHANGED syncVars
    /\ UNCHANGED actionVars
    /\ UNCHANGED helperVars
    /\ UNCHANGED tagVars
    /\ UNCHANGED fetchVars
    /\ UNCHANGED earlierVars

EnrichOpportunity ==
    /\ epc = "start"
    /\ ecall.type = "opportunity"
    /\ EnrichDone(enrichOpportunityResponse(ecall.raw, CopperAccountId, Users,
                      Pipelines, CustomerSources, LossReasons,
                      Arr(CustomFieldDefinitions), withReferencesIn(ecall.ctx)),
                  opportunityEnriched(ecall.raw, CopperAccountId, Users,
                      Pipelines, CustomerSources, LossReasons,
                      Arr(CustomFieldDefinitions), withReferencesIn(ecall.ctx)))

EnrichPerson ==
    /\ epc = "start"
    /\ ecall.type = "person"
    /\ EnrichDone(enrichPersonResponse(ecall.raw, CopperAccountId, Arr(Users),
                      Arr(ContactTypes), Arr(CustomFieldDefinitions)),
                  IF Get(ecall.raw, "emails").t # "array"
                  THEN personBeforeEmails(ecall.raw, CopperAccountId)
                  ELSE personEnriched(ecall.raw, CopperAccountId, Arr(Users),
                           Arr(ContactTypes), Arr(CustomFieldDefinitions)))

EnrichCompany ==
    /\ epc = "start"
    /\ ecall.type = "company"
    /\ EnrichDone(enrichCompanyResponse(ecall.raw, CopperAccountId, Arr(Users),
                      Arr(CustomFieldDefinitions)),
                  companyEnriched(ecall.raw, CopperAccountId, Arr(Users),
                      Arr(CustomFieldDefinitions)))

NextEnrich == EnrichOpportunity \/ EnrichPerson \/ EnrichCompany

SpecEnrich == InitEnrich /\ [][NextEnrich]_vars

(***************************************************************************)
(* Properties of the enrichment                                            *)
(***************************************************************************)
IdsOf(list) == {list[i].id.n : i \in 1..Len(list)}

\* the foreign key of the raw record matches no entry of the dataset
Misses(key, list) == Get(ecall.raw, key).n \notin IdsOf(list)

StageIds == {31, 32, 33}

\* C3: every enrichment returns a record, whatever lookups miss and whatever
\* optional fields the raw record lacks; a field whose lookup misses is
\* undefined (for the assignee: email and name undefined).
C3_TotalOnMisses ==
    epc = "done" =>
        /\ ~eret.threw
        /\ Misses("assignee_id", Users) =>
              /\ Get(eout, "assignee").fields.email = Undef
              /\ Get(eout, "assignee").fields.name = Undef
        /\ ecall.type = "opportunity" =>
              /\ Misses("pipeline_id", Pipelines) => Get(eout, "pipeline") = Undef
              /\ Get(ecall.raw, "pipeline_stage_id").n \notin StageIds =>
                     Get(eout, "pipelineStage") = Undef
              /\ Misses("customer_source_id", CustomerSources) =>
                     Get(eout, "customerSource") = Undef
              /\ Misses("loss_reason_id", LossReasons) =>
                     Get(eout, "lossReason") = Undef
        /\ ecall.type = "person" /\ Misses("contact_type_id", ContactTypes) =>
              Get(eout, "contactType") = Undef

\* the record of the call as its enrich function has it before pruning
EnrichedBeforePruning ==
    CASE ecall.type = "opportunity" ->
            opportunityEnriched(ecall.raw, CopperAccountId, Users, Pipelines,
                                CustomerSources, LossReasons,
                                Arr(CustomFieldDefinitions),
                                withReferencesIn(ecall.ctx))
      [] ecall.type = "person" ->
            personEnriched(ecall.raw, CopperAccountId, Arr(Users),
                           Arr(ContactTypes), Arr(CustomFieldDefinitions))
      [] ecall.type = "company" ->
            companyEnriched(ecall.raw, CopperAccountId, Arr(Users),
                            Arr(CustomFieldDefinitions))

SchemaOf(type) ==
    CASE type = "opportunity" -> OpportunitySchema
      [] type = "person" -> PersonSchema
      [] type = "company" -> CompanySchema

\* the names of the custom fields found on the raw record: the names of the
\* definitions that its custom_fields entries refer to
CustomFieldNamesOn(raw) ==
    IF "custom_fields" \notin DOMAIN raw THEN {}
    ELSE LET entries == raw["custom_fields"].items
         IN  {CustomFieldDefinitions[d].name.s :
                d \in {d \in 1..Len(CustomFieldDefinitions) :
                         \E i \in 1..Len(entries) :
                            entries[i].custom_field_definition_id
                                = CustomFieldDefinitions[d].id}}

\* C9: a returned record has only source keys of its schema and names of
\* custom fields found on the record, and each such key of the enriched
\* record is kept with its value.
C9_PrunedToSchema ==
    (epc = "done" /\ ~eret.threw) =>
        LET allowed == schemaSourceKeys(SchemaOf(ecall.type))
                          \cup CustomFieldNamesOn(ecall.raw)
        IN  /\ DOMAIN eout \subseteq allowed
            /\ \A k \in allowed \cap DOMAIN EnrichedBeforePruning :
                  k \in DOMAIN eout /\ eout[k] = EnrichedBeforePruning[k]

\* C10: the stubs company {id, name} and primaryContact {id, fullName: 'Not
\* found'} are on the records of a sync result (when the raw record has the
\* company_id, the primary_contact_id) and on no record that a getter or an
\* action returns.
C10_StubsOnlyInSync ==
    (epc = "done" /\ ~eret.threw) =>
        IF ecall.ctx = "sync"
        THEN /\ Truthy(Get(ecall.raw, "company_id")) =>
                  Get(eout, "company")
                      = Obj([id |-> Get(ecall.raw, "company_id"),
                             name |-> Get(ecall.raw, "company_name")])
             /\ (ecall.type = "opportunity"
                    /\ Truthy(Get(ecall.raw, "primary_contact_id"))) =>
                  Get(eout, "primaryContact")
                      = Obj([id |-> Get(ecall.raw, "primary_contact_id"),
                             fullName |-> Str("Not found")])
        ELSE /\ "company" \notin DOMAIN eout
             /\ "primaryContact" \notin DOMAIN eout

\* the entries of the raw record's custom_fields that decide a field: the
\* definition is known and no later entry has the same definition
DecidingEntries(raw) ==
    IF "custom_fields" \notin DOMAIN raw THEN {}
    ELSE LET entries == raw["custom_fields"].items
         IN  {i \in 1..Len(entries) :
                /\ \E k \in 1..Len(CustomFieldDefinitions) :
                      CustomFieldDefinitions[k].id = entries[i].custom_field_definition_id
                /\ \A j \in (i + 1)..Len(entries) :
                      entries[j].custom_field_definition_id
                          # entries[i].custom_field_definition_id}

DefinitionName(id) ==
    (CHOOSE d \in {CustomFieldDefinitions[k] : k \in 1..Len(CustomFieldDefinitions)} :
        d.id = id).name.s

\* C11: every custom-field entry with a computed_value, whatever that value
\* is (false, 0 and the empty string included), puts computed_value under the
\* definition's name on the enriched record; value is used only when the
\* entry has no computed_value.
C11_ComputedValueFirst ==
    (epc = "done" /\ ~eret.threw) =>
        \A i \in DecidingEntries(ecall.raw) :
            LET entry == ecall.raw["custom_fields"].items[i]
                name == DefinitionName(entry.custom_field_definition_id)
            IN  /\ name \in DOMAIN eout
                /\ eout[name] = IF entry.computed_value.t \in {"undefined", "null"}
                                THEN entry.value
                                ELSE entry.computed_value

\* equal as strings: both there, with the same text
TextEq(a, b) ==
    /\ a.t \notin {"undefined", "null"}
    /\ b.t \notin {"undefined", "null"}
    /\ ToText(a) = ToText(b)

EntriesOf(raw) ==
    IF Get(raw, "custom_fields").t = "array" THEN Get(raw, "custom_fields").items
    ELSE <<>>

\* C24: a reference lookup finds the entry whose id equals the foreign key of
\* the record as a string, also when one is a number and the other a numeric
\* string: the assignee has the email of the user with the record's
\* assignee_id, and every custom-field entry whose definition id equals the
\* id of a definition is on the record under the name of that definition.
C24_LookupsByText ==
    (epc = "done" /\ ~eret.threw) =>
        /\ \A u \in 1..Len(Users) :
              TextEq(Users[u].id, Get(ecall.raw, "assignee_id")) =>
                  Get(eout, "assignee").fields.email = Users[u].email
        /\ \A i \in 1..Len(EntriesOf(ecall.raw)) :
              \A d \in 1..Len(CustomFieldDefinitions) :
                  TextEq(CustomFieldDefinitions[d].id,
                         EntriesOf(ecall.raw)[i].custom_field_definition_id) =>
                      CustomFieldDefinitions[d].name.s \in DOMAIN eout

\* the entry matches no definition, not even as a string
Unmatched(entry) ==
    \A d \in 1..Len(CustomFieldDefinitions) :
        ~TextEq(CustomFieldDefinitions[d].id, entry.custom_field_definition_id)

\* C25: a custom-field entry whose definition id matches no definition adds
\* no key to the enriched record, in particular no key 'undefined', and the
\* entries that match still give their keys.
C25_UnmatchedAddsNoKey ==
    (epc = "done" /\ ~eret.threw) =>
        /\ (\E i \in 1..Len(EntriesOf(ecall.raw)) : Unmatched(EntriesOf(ecall.raw)[i])) =>
              "undefined" \notin DOMAIN eout
        /\ \A i \in DecidingEntries(ecall.raw) :
              DefinitionName(EntriesOf(ecall.raw)[i].custom_field_definition_id)
                  \in DOMAIN eout

\* C27: an enrich function is pure: the call leaves the raw record object it
\* was given as it was (and the reference datasets, which the model holds as
\* constants), and its result is a function of its arguments.
C27_EnrichIsPure ==
    epc = "done" => eraw = ecall.raw

\* C29: merging the custom fields replaces no built-in field: for a custom
\* field whose definition has the name of a key the record has already, the
\* enriched record keeps the record's own value under that key.
C29_BuiltInFieldsKept ==
    (epc = "done" /\ ~eret.threw) =>
        \A i \in DecidingEntries(ecall.raw) :
            LET name == DefinitionName(EntriesOf(ecall.raw)[i].custom_field_definition_id)
            IN  name \in DOMAIN ecall.raw =>
                    (name \in DOMAIN eout /\ eout[name] = ecall.raw[name])

(***************************************************************************)
(* Properties of the pagination                                            *)
(***************************************************************************)
LastRequest == req[Len(req)]

\* C1: a page of fewer than PAGE_SIZE records is answered with no
\* continuation at all, a page of exactly PAGE_SIZE records with
\* {pageNumber: n + 1}, n being the page just requested.
C1_ContinuationIffFullPage ==
    spc = "returned" =>
        IF LastRequest.returned < PAGE_SIZE
        THEN cont = NoContinuation
        ELSE cont = PageContinuation(LastRequest.page_number + 1)

\* C2: every request has page_size PAGE_SIZE, and the i-th request of a
\* sync asks for page i: no page is skipped and none is requested twice.
C2_PagesInSequence ==
    \A i \in 1..Len(req) :
        /\ req[i].page_size = PAGE_SIZE
        /\ req[i].page_number = i

\* C23: the result array of an invocation holds one enriched record for each
\* raw record of the page, in the order of the page; the full-page check
\* leaves its length and its contents as they are.
C23_ResultIsPage ==
    spc = "returned" =>
        /\ Len(result) = LastRequest.returned
        /\ \A i \in 1..Len(result) :
              /\ result[i].enriched
              /\ result[i].record = (LastRequest.page_number - 1) * PAGE_SIZE + i

CeilDiv(a, b) == (a + b - 1) \div b

\* C20: a sync over total records that do not change ends: after at most
\* ceil(total / PAGE_SIZE) + 1 invocations a response carries no
\* continuation and the host ends the sync; no invocation after the first
\* asks for page 1 again.
C20_SyncTerminates ==
    /\ <>(spc \in {"finished", "failed"})
    /\ [](Len(req) <= CeilDiv(total, PAGE_SIZE) + 1)
    /\ [](\A i \in 2..Len(req) : req[i].page_number # 1)

(***************************************************************************)
(* Properties of the identifier resolver                                   *)
(***************************************************************************)
ResolverDone(fn) == rpc = "done" /\ rcall.fn = fn

InvalidIdError == UserVisibleError("Invalid Copper ID or URL")

\* the record type the specification gives for each token of a web address
TypeOfWebToken(tok) ==
    CASE tok = "contact" -> "person"
      [] tok = "deal" -> "opportunity"
      [] tok = "organization" -> "company"
      [] OTHER -> ""

\* the digits that end the address assembled from seg
SegDigits(seg) == seg.id \o (IF seg.suf = "7" THEN "7" ELSE "")

SegLastIsRecord(seg) ==
    TypeOfWebToken(seg.tok) # "" /\ Len(SegDigits(seg)) >= 5

BareOutcome(input) ==
    IF input \in {"12345", "123456", "1234567"}
    THEN Returned([id |-> input, type |-> Null])
    ELSE InvalidIdError

C7_UrlRoundTrip ==
    ResolverDone("getCopperUrl") =>
        rret = Returned([id |-> rcall.c, type |-> rcall.b])

C7_Witness ==
    /\ ResolverDone("getCopperUrl")
    /\ rcall.b = "company"
    /\ rcall.c = "1234567"
    /\ rurl = "https://app.copper.com/companies/9/app#/organization/1234567"

\* the two types named as the specification words them
NamedWithArticle(type) ==
    CASE type = "person" -> "a person"
      [] type = "company" -> "a company"
      [] type = "opportunity" -> "an opportunity"

\* C8: checkRecordIdType does nothing when the type found is null or the
\* expected one; otherwise it throws a user-visible error whose message
\* names both types, each with its indefinite article.
C8_TypeCheck ==
    ResolverDone("checkRecordIdType") =>
        IF rcall.a = Null \/ rcall.a = rcall.b
        THEN ~rret.threw
        ELSE /\ rret.threw
             /\ rret.kind = "UserVisibleError"
             /\ Contains(rret.message, NamedWithArticle(rcall.a))
             /\ Contains(rret.message, NamedWithArticle(rcall.b))

C8_Witness ==
    /\ ResolverDone("checkRecordIdType")
    /\ rcall.a = "company"
    /\ rcall.b = "opportunity"
    /\ rret.threw
    /\ rret.message = "Expected an opportunity, but got a company"

(***************************************************************************)
(* Action formulas.  An execution runs from its call to a return or an     *)
(* error; between two awaits it is one step.  A request the fetcher        *)
(* rejects (a status other than 2xx, no connection) throws at its await.   *)
(***************************************************************************)
ActionNames == {"updateOpportunityStatus", "updateOpportunityStage",
                "assignRecord", "addOrRemoveTag"}

GetterNames == {"getOpportunity", "getPerson", "getCompany"}

ActionTargets ==
    {"123456", "1234",
     "https://app.copper.com/companies/9/app#/deal/123456",
     "https://app.copper.com/companies/9/app#/contact/123456",
     "https://app.copper.com/companies/9/app#/organization/123456"}

StatusInputs == {"won", "LOST", "Open", "closed", ""}

LossReasonInputs == {"", "Price", "price"}

StageNameInputs == {"lead", "CLOSING", "Nope"}

AssigneeEmailInputs == {"ann@x.co", "ANN@x.co", "zed@x.co"}

TagInputs == {"vip", "new"}

ActionCalls ==
    {[NoCall EXCEPT !.action = "updateOpportunityStatus", !.urlOrId = u,
                    !.newStatus = st, !.lossReason = lr] :
        u \in ActionTargets, st \in StatusInputs, lr \in LossReasonInputs}
    \cup
    {[NoCall EXCEPT !.action = "updateOpportunityStage", !.urlOrId = u,
                    !.newStageName = sn] :
        u \in ActionTargets, sn \in StageNameInputs}
    \cup
    {[NoCall EXCEPT !.action = "assignRecord", !.recordType = rt,
                    !.urlOrId = u, !.assigneeEmail = em] :
        rt \in RecordTypeNames, u \in ActionTargets, em \in AssigneeEmailInputs}
    \cup
    {[NoCall EXCEPT !.action = "addOrRemoveTag", !.recordType = rt,
                    !.urlOrId = u, !.tag = tg, !.remove = rm] :
        rt \in RecordTypeNames, u \in ActionTargets, tg \in TagInputs,
        rm \in BOOLEAN}
    \cup
    {[NoCall EXCEPT !.action = g, !.urlOrId = u] :
        g \in GetterNames, u \in ActionTargets}

\* the type of record the execution addresses at the CRM
endpointType(call) ==
    IF call.action \in {"updateOpportunityStatus", "updateOpportunityStage",
                        "getOpportunity"}
    THEN "opportunity"
    ELSE IF call.action = "getPerson" THEN "person"
    ELSE IF call.action = "getCompany" THEN "company"
    ELSE call.recordType

RawTags ==
    OptionalKey("tags",
        {Arr(<<>>), Arr(<<Str("vip"), Str("old"), Str("vip")>>)}, TRUE)

RawEmptyCustomFields == OptionalKey("custom_fields", {Arr(<<>>)}, TRUE)

\* the records the CRM may hold at the addressed endpoint
CrmOpportunities ==
    {[id |-> Num(123456), name |-> Str("Deal"), status |-> Str("Open"),
      company_name |-> Str("Acme"), leads_converted_from |-> Arr(<<>>),
      pipeline_id |-> Num(pl), pipeline_stage_id |-> Num(31),
      assignee_id |-> JNull, customer_source_id |-> JNull,
      loss_reason_id |-> JNull, company_id |-> Num(61),
      primary_contact_id |-> JNull] @@ tg @@ cf :
        pl \in {21, 29}, tg \in RawTags, cf \in RawEmptyCustomFields}

CrmPeople ==
    {[id |-> Num(123456), name |-> Str("Pat Poe"),
      company_name |-> Str("Acme"), phone_numbers |-> Arr(<<>>),
      assignee_id |-> JNull, contact_type_id |-> Num(91),
      company_id |-> Num(61)] @@ em @@ tg @@ cf :
        em \in OptionalKey("emails", {Arr(<<>>)}, TRUE),
        tg \in RawTags, cf \in RawEmptyCustomFields}

CrmCompanies ==
    {[id |-> Num(123456), name |-> Str("Acme"),
      primary_parent |-> JNull, assignee_id |-> JNull,
      contact_type_id |-> Num(91)] @@ tg @@ cf :
        tg \in RawTags, cf \in RawEmptyCustomFields}

CrmRecords(recordType) ==
    IF recordType = "opportunity" THEN CrmOpportunities
    ELSE IF recordType = "person" THEN CrmPeople
    ELSE CrmCompanies

InitAction ==
    /\ acall \in ActionCalls
    /\ apc = "start"
    /\ alog = <<>>
    /\ aerr = NoError
    /\ aout = NoRecord
    /\ recordId = NoId
    /\ crm \in CrmOpportunities \cup CrmPeople \cup CrmCompanies
    /\ crm \in CrmRecords(endpointType(acall))
    /\ mutated = FALSE
    /\ ResolverIdle
    /\ SyncIdle
    /\ EnrichIdle
    /\ HelperIdle
    /\ TagsIdle
    /\ FetchIdle
    /\ EarlierIdle

Request(method, endpoint, payload) ==
    [method |-> method, endpoint |-> endpoint, payload |-> payload]

UnchangedByAction ==
    /\ UNCHANGED acall
    /\ UNCHANGED resolverVars
    /\ UNCHANGED syncVars
    /\ UNCHANGED enrichVars
    /\ UNCHANGED helperVars
    /\ UNCHANGED tagVars
    /\ UNCHANGED fetchVars
    /\ UNCHANGED earlierVars

\* throw: the execution ends with the error, nothing else changes
Throws(kind, message) ==
    /\ apc' = "error"
    /\ aerr' = [kind |-> kind, message |-> message]
    /\ UNCHANGED <<alog, aout, recordId, crm, mutated>>
    /\ UnchangedByAction

\* the execution issues the requests and waits at the await
Awaits(requests, await) ==
    /\ apc' = await
    /\ alog' = alog \o requests
    /\ UNCHANGED <<aerr, aout, recordId, crm, mutated>>
    /\ UnchangedByAction

\* the same, in the step that resolved the identifier
AwaitsWith(id, requests, await) ==
    /\ apc' = await
    /\ alog' = alog \o requests
    /\ recordId' = id
    /\ UNCHANGED <<aerr, aout, crm, mutated>>
    /\ UnchangedByAction

UsersPageSize == 200

basicCachedRequest(endpoint) ==
    Request("GET", endpoint, "page_size" :> Num(PAGE_SIZE))

getCopperUsersRequest ==
    Request("POST", "users/search", "page_size" :> Num(UsersPageSize))

\* checkRecordIdType against the expected type, for a resolved identifier
typeChecked(resolved, expectedType) ==
    IF resolved.threw THEN resolved
    ELSE IF checkRecordIdType(resolved.value.type, expectedType).threw
    THEN checkRecordIdType(resolved.value.type, expectedType)
    ELSE resolved

\* getIdFromUrlOrId, then checkRecordIdType against the expected type
identify(urlOrId, expectedType) ==
    typeChecked(getIdFromUrlOrId(urlOrId), expectedType)

\* a slip: every value counts as one of the list
includes_Anything(list, value) == TRUE

\* list.includes(value)
includes(list, value) == \E i \in 1..Len(list) : list[i] = value

\* list.map(({ key }) => key), of strings
namesOf(list, key) == [i \in 1..Len(list) |-> list[i][key].s]

putRequest(endpoint, payload) == <<Request("PUT", endpoint, payload)>>

\* Promise.all of the fetches of enrich<Type>ResponseWithFetches
referenceRequests(recordType) ==
    CASE recordType = "person" ->
            <<getCopperUsersRequest, basicCachedRequest("account"),
              basicCachedRequest("contact_types"),
              basicCachedRequest("custom_field_definitions")>>
      [] recordType = "company" ->
            <<getCopperUsersRequest, basicCachedRequest("account"),
              basicCachedRequest("custom_field_definitions")>>
      [] OTHER ->
            <<getCopperUsersRequest, basicCachedRequest("pipelines"),
              basicCachedRequest("customer_sources"),
              basicCachedRequest("loss_reasons"), basicCachedRequest("account"),
              basicCachedRequest("custom_field_definitions")>>

\* the call up to its first await
updateOpportunityStatus ==
    /\ apc = "start"
    /\ acall.action = "updateOpportunityStatus"
    /\ \E opportunityId \in {identify(acall.urlOrId, "opportunity")} :
           IF opportunityId.threw
           THEN Throws(opportunityId.kind, opportunityId.message)
           ELSE IF acall.newStatus = ""
           THEN Throws("TypeError",
                       "Cannot read properties of undefined (reading 'toUpperCase')")
           ELSE IF ~includes(STATUS_OPTIONS, titleCase(acall.newStatus))
           THEN Throws("UserVisibleError",
                       "New status must be " \o humanReadableList(STATUS_OPTIONS))
           ELSE IF acall.lossReason # "" /\ titleCase(acall.newStatus) = "Lost"
           THEN AwaitsWith(opportunityId.value,
                           <<basicCachedRequest("loss_reasons")>>,
                           "awaitLossReasons")
           ELSE AwaitsWith(opportunityId.value,
                       putRequest("opportunities/" \o opportunityId.value.id,
                                  "status" :> Str(titleCase(acall.newStatus))),
                       "awaitPut")

\* a slip: the names are compared without regard to case
lossReasonNamed_AnyCase(lossReasons, lossReason) ==
    FindFirst(lossReasons,
              LAMBDA reason : toLowerCase(reason.name.s) = toLowerCase(lossReason))

\* lossReasons.find((reason) => reason.name === lossReason)
lossReasonNamed(lossReasons, lossReason) ==
    FindFirst(lossReasons, LAMBDA reason : StrictEq(reason.name, Str(lossReason)))

\* the loss reasons arrive
updateOpportunityStatusLossReason ==
    /\ apc = "awaitLossReasons"
    /\ LET lossReasons == LossReasons
           lossReasonObject == lossReasonNamed(lossReasons, acall.lossReason)
       IN  IF lossReasonObject # 0
           THEN Awaits(putRequest(
                           "opportunities/" \o recordId.id,
                           ("status" :> Str(titleCase(acall.newStatus)))
                             @@ ("loss_reason_id" :> lossReasons[lossReasonObject].id)),
                       "awaitPut")
           ELSE Throws("UserVisibleError",
                       "Loss reason must be "
                         \o humanReadableList(namesOf(lossReasons, "name")))

updateOpportunityStage ==
    /\ apc = "start"
    /\ acall.action = "updateOpportunityStage"
    /\ \E opportunityId \in {identify(acall.urlOrId, "opportunity")} :
           IF opportunityId.threw
           THEN Throws(opportunityId.kind, opportunityId.message)
           ELSE AwaitsWith(opportunityId.value,
                       <<Request("GET", "opportunities/" \o opportunityId.value.id,
                                 NoKeys),
                         basicCachedRequest("pipelines")>>,
                       "awaitOpportunity")

\* the opportunity and the pipelines arrive
updateOpportunityStageFound ==
    /\ apc = "awaitOpportunity"
    /\ LET opportunity == crm
           pipeline == FindFirst(Pipelines,
                           LAMBDA x : StrictEq(x.id, Get(opportunity, "pipeline_id")))
       IN  IF pipeline = 0
           THEN Throws("TypeError",
                       "Cannot read properties of undefined (reading 'stages')")
           ELSE LET stages == Pipelines[pipeline].stages
                    newStage ==
                        FindFirst(stages,
                            LAMBDA stage : toLowerCase(stage.name.s)
                                              = toLowerCase(acall.newStageName))
                IN  IF newStage = 0
                    THEN Throws("UserVisibleError",
                                "Stage must be "
                                  \o humanReadableList(namesOf(stages, "name")))
                    ELSE Awaits(putRequest(
                                    "opportunities/"
                                      \o recordId.id,
                                    "pipeline_stage_id" :> stages[newStage].id),
                                "awaitPut")

assignRecord ==
    /\ apc = "start"
    /\ acall.action = "assignRecord"
    /\ \E resolved \in {identify(acall.urlOrId, acall.recordType)} :
           IF resolved.threw
           THEN Throws(resolved.kind, resolved.message)
           ELSE AwaitsWith(resolved.value, <<getCopperUsersRequest>>, "awaitUsers")

\* a slip: the emails are compared without regard to case
userWithEmail_AnyCase(users, assigneeEmail) ==
    FindFirst(users,
              LAMBDA user : toLowerCase(user.email.s) = toLowerCase(assigneeEmail))

\* users.find((user) => user.email === assigneeEmail)
userWithEmail(users, assigneeEmail) ==
    FindFirst(users, LAMBDA user : StrictEq(user.email, Str(assigneeEmail)))

\* the users arrive
assignRecordUser ==
    /\ apc = "awaitUsers"
    /\ LET users == Users
           assigneeUser == userWithEmail(users, acall.assigneeEmail)
       IN  IF assigneeUser = 0
           THEN Throws("UserVisibleError",
                       "Couldn't find a Copper user with the email address \""
                         \o acall.assigneeEmail \o "\". Try "
                         \o humanReadableList(namesOf(users, "email")) \o ".")
           ELSE Awaits(putRequest(
                           getRecordApiEndpoint(acall.recordType,
                               recordId.id),
                           "assignee_id" :> users[assigneeUser].id),
                       "awaitPut")

addOrRemoveTag ==
    /\ apc = "start"
    /\ acall.action = "addOrRemoveTag"
    /\ \E resolved \in {identify(acall.urlOrId, acall.recordType)} :
           IF resolved.threw
           THEN Throws(resolved.kind, resolved.message)
           ELSE AwaitsWith(resolved.value,
                       <<Request("GET",
                                 getRecordApiEndpoint(acall.recordType,
                                                      resolved.value.id),
                                 NoKeys)>>,
                       "awaitExisting")

\* tags.filter((candidateTag) => candidateTag !== tag)
RECURSIVE withoutTag(_, _)
withoutTag(tags, tag) ==
    IF Len(tags) = 0 THEN <<>>
    ELSE IF StrictEq(Head(tags), tag) THEN withoutTag(Tail(tags), tag)
    ELSE <<Head(tags)>> \o withoutTag(Tail(tags), tag)

\* a slip: a tag that is already there is not added again
newTags_AddIfAbsent(tags, tag, remove) ==
    IF remove THEN withoutTag(tags, tag)
    ELSE IF \E i \in 1..Len(tags) : tags[i] = tag THEN tags
    ELSE Append(tags, tag)

\* if (remove) tags = tags.filter(...) else tags.push(tag)
newTags(tags, tag, remove) ==
    IF remove THEN withoutTag(tags, tag) ELSE Append(tags, tag)

\* the existing record arrives
addOrRemoveTagExisting ==
    /\ apc = "awaitExisting"
    /\ LET tags == Get(crm, "tags")
       IN  IF tags.t # "array"
           THEN Throws("TypeError",
                       IF acall.remove
                       THEN "Cannot read properties of undefined (reading 'filter')"
                       ELSE "Cannot read properties of undefined (reading 'push')")
           ELSE Awaits(putRequest(
                           getRecordApiEndpoint(acall.recordType,
                               recordId.id),
                           "tags" :> Arr(newTags(tags.items, Str(acall.tag),
                                                 acall.remove))),
                       "awaitPut")

\* Promise.all of the record and the reference data of a getter
getterRequests(recordType, id) ==
    <<Request("GET", getRecordApiEndpoint(recordType, id),
              "custom_field_computed_values" :> JTrue)>>
    \o (IF recordType = "opportunity"
        THEN <<getCopperUsersRequest, basicCachedRequest("account"),
               basicCachedRequest("pipelines"),
               basicCachedRequest("customer_sources"),
               basicCachedRequest("loss_reasons"),
               basicCachedRequest("custom_field_definitions")>>
        ELSE referenceRequests(recordType))

getOpportunity ==
    /\ apc = "start"
    /\ acall.action = "getOpportunity"
    /\ \E opportunityId \in {identify(acall.urlOrId, "opportunity")} :
           IF opportunityId.threw
           THEN Throws(opportunityId.kind, opportunityId.message)
           ELSE AwaitsWith(opportunityId.value,
                           getterRequests("opportunity", opportunityId.value.id),
                           "awaitRecord")

getPerson ==
    /\ apc = "start"
    /\ acall.action = "getPerson"
    /\ \E opportunityId \in {identify(acall.urlOrId, "person")} :
           IF opportunityId.threw
           THEN Throws(opportunityId.kind, opportunityId.message)
           ELSE AwaitsWith(opportunityId.value,
                           getterRequests("person", opportunityId.value.id),
                           "awaitRecord")

getCompany ==
    /\ apc = "start"
    /\ acall.action = "getCompany"
    /\ \E opportunityId \in {identify(acall.urlOrId, "company")} :
           IF opportunityId.threw
           THEN Throws(opportunityId.kind, opportunityId.message)
           ELSE AwaitsWith(opportunityId.value,
                           getterRequests("company", opportunityId.value.id),
                           "awaitRecord")

AwaitsResponse ==
    apc \in {"awaitLossReasons", "awaitOpportunity", "awaitUsers",
             "awaitExisting", "awaitPut", "awaitReferences", "awaitRecord"}

\* a slip: the rejection is caught and the execution returns what it has
FetchRejects_Swallowed ==
    /\ AwaitsResponse
    /\ apc' = "done"
    /\ aerr' = [kind |-> "StatusCodeError", message |-> ""]
    /\ aout' = crm
    /\ UNCHANGED <<alog, recordId, crm, mutated>>
    /\ UnchangedByAction

\* the fetcher rejects a request the execution waits for: callApi has no
\* catch and neither has any caller, the rejection ends the execution
FetchRejects ==
    /\ AwaitsResponse
    /\ Throws("StatusCodeError", "")

\* the CRM applies the PUT and responds with the updated record; the
\* execution goes on to fetch the reference data of the enrichment
PutResponds ==
    /\ apc = "awaitPut"
    /\ crm' = Assign(crm, alog[Len(alog)].payload)
    /\ mutated' = TRUE
    /\ alog' = alog \o referenceRequests(endpointType(acall))
    /\ apc' = "awaitReferences"
    /\ UNCHANGED <<aerr, aout, recordId>>
    /\ UnchangedByAction

\* enrich<Type>Response on the body of the PUT response, withReferences
\* left at its default
enrichResponse(recordType, body) ==
    CASE recordType = "person" ->
            enrichPersonResponse(body, CopperAccountId, Arr(Users),
                Arr(ContactTypes), Arr(CustomFieldDefinitions))
      [] recordType = "company" ->
            enrichCompanyResponse(body, CopperAccountId, Arr(Users),
                Arr(CustomFieldDefinitions))
      [] OTHER ->
            enrichOpportunityResponse(body, CopperAccountId, Users, Pipelines,
                CustomerSources, LossReasons, Arr(CustomFieldDefinitions), FALSE)

\* the reference data arrives and the response body is enriched; for a
\* getter, the record and the reference data arrive
enrichResponseWithFetches ==
    /\ apc \in {"awaitReferences", "awaitRecord"}
    /\ LET enriched == enrichResponse(endpointType(acall), crm)
       IN  IF enriched.ret.threw
           THEN Throws(enriched.ret.kind, enriched.ret.message)
           ELSE /\ apc' = "done"
                /\ aout' = enriched.out
                /\ UNCHANGED <<alog, aerr, recordId, crm, mutated>>
                /\ UnchangedByAction

NextAction ==
    \/ updateOpportunityStatus
    \/ updateOpportunityStatusLossReason
    \/ updateOpportunityStage
    \/ updateOpportunityStageFound
    \/ assignRecord
    \/ assignRecordUser
    \/ addOrRemoveTag
    \/ addOrRemoveTagExisting
    \/ getOpportunity
    \/ getPerson
    \/ getCompany
    \/ FetchRejects
    \/ PutResponds
    \/ enrichResponseWithFetches

SpecAction == InitAction /\ [][NextAction]_vars

(***************************************************************************)
(* Properties of the action formulas                                       *)
(***************************************************************************)
PutIssued == \E i \in 1..Len(alog) : alog[i].method = "PUT"

\* the requests issued before the first PUT
BeforePut ==
    LET first == CHOOSE i \in 1..Len(alog) :
                     /\ alog[i].method = "PUT"
                     /\ \A j \in 1..(i - 1) : alog[j].method # "PUT"
    IN  {alog[j] : j \in 1..(first - 1)}

Fetched(method, endpoint) ==
    \E r \in BeforePut : r.method = method /\ r.endpoint = endpoint

\* the identifier is a bare id or a record URL of the expected type
IdentifierAccepted ==
    \/ acall.urlOrId = "123456"
    \/ /\ endpointType(acall) = "opportunity"
       /\ acall.urlOrId = "https://app.copper.com/companies/9/app#/deal/123456"
    \/ /\ endpointType(acall) = "person"
       /\ acall.urlOrId = "https://app.copper.com/companies/9/app#/contact/123456"
    \/ /\ endpointType(acall) = "company"
       /\ acall.urlOrId
            = "https://app.copper.com/companies/9/app#/organization/123456"

\* the status is one of the four options whatever its case, and a loss
\* reason given with the status Lost is the name of a loss reason of the CRM
StatusAccepted ==
    /\ toLowerCase(acall.newStatus) \in {"open", "won", "lost", "abandoned"}
    /\ (acall.lossReason # "" /\ toLowerCase(acall.newStatus) = "lost")
          => \E i \in 1..Len(LossReasons) :
                LossReasons[i].name.s = acall.lossReason

\* the stage name is, whatever its case, a stage of the opportunity's pipeline
StageAccepted ==
    \E i \in 1..Len(Pipelines) :
        /\ Pipelines[i].id = crm["pipeline_id"]
        /\ \E k \in 1..Len(Pipelines[i].stages) :
              toLowerCase(Pipelines[i].stages[k].name.s)
                  = toLowerCase(acall.newStageName)

\* the email is the email of a user of the CRM
AssigneeAccepted ==
    \E i \in 1..Len(Users) : Users[i].email.s = acall.assigneeEmail

ValueAccepted ==
    CASE acall.action = "updateOpportunityStatus" -> StatusAccepted
      [] acall.action = "updateOpportunityStage" -> StageAccepted
      [] acall.action = "assignRecord" -> AssigneeAccepted
      [] OTHER -> TRUE

\* the reference data the validation reads was requested before the PUT
ValidationFetched ==
    CASE acall.action = "updateOpportunityStatus" ->
            (acall.lossReason # "" /\ toLowerCase(acall.newStatus) = "lost")
                => Fetched("GET", "loss_reasons")
      [] acall.action = "updateOpportunityStage" ->
            Fetched("GET", "pipelines") /\ Fetched("GET", "opportunities/123456")
      [] acall.action = "assignRecord" -> Fetched("POST", "users/search")
      [] OTHER -> TRUE

\* C4: an action issues a PUT only after the identifier has resolved, the
\* record type has passed its check and the supplied value (status, loss
\* reason, stage name, assignee email) has been validated, with the reference
\* data the validation needs fetched before the PUT; an execution in which
\* one of them fails ends with an error and has issued no PUT.
C4_ValidatedBeforePut ==
    /\ PutIssued => (IdentifierAccepted /\ ValueAccepted /\ ValidationFetched)
    /\ (apc \in {"done", "error"} /\ ~(IdentifierAccepted /\ ValueAccepted))
          => (apc = "error" /\ ~PutIssued)

\* a status change to Lost whose loss reason has been looked up has its PUT
\* out, carrying the id of the reason
C4_Witness ==
    /\ acall.action = "updateOpportunityStatus"
    /\ acall.lossReason = "Price"
    /\ apc = "awaitPut"
    /\ alog[Len(alog)].method = "PUT"
    /\ alog[Len(alog)].payload = (("status" :> Str("Lost"))
                                    @@ ("loss_reason_id" :> Num(51)))
    /\ ~mutated

\* C5: an action that ends with an error has not mutated the remote record:
\* no execution has its PUT applied by the CRM and then reports failure.
C5_NoMutationOnError == (apc = "error") => ~mutated

\* the execution has its PUT out and the CRM has not answered it
PutPending(action) ==
    /\ acall.action = action
    /\ apc = "awaitPut"
    /\ alog[Len(alog)].method = "PUT"

\* C12: the PUT of addOrRemoveTag carries the full replacement tag list made
\* from the record's current tags.  On remove: the current tags without any
\* exact match of the tag, the others in their order, so that an absent tag
\* leaves the list as it is and removing again changes nothing more.  On add:
\* the current tags with the tag appended at the end, also when it is there
\* already.
C12_ReplacementTags ==
    PutPending("addOrRemoveTag") =>
        LET current == crm["tags"].items
            tag == Str(acall.tag)
            sent == alog[Len(alog)].payload
            kept == SelectSeq(current, LAMBDA t : t # tag)
        IN  /\ DOMAIN sent = {"tags"}
            /\ alog[Len(alog)].endpoint
                  = getRecordApiEndpoint(acall.recordType, recordId.id)
            /\ acall.remove =>
                  /\ sent["tags"] = Arr(kept)
                  /\ (\A i \in 1..Len(current) : current[i] # tag)
                        => sent["tags"].items = current
                  /\ newTags(sent["tags"].items, tag, TRUE) = sent["tags"].items
            /\ ~acall.remove =>
                  /\ sent["tags"].items = current \o <<tag>>
                  /\ Len(sent["tags"].items) = Len(current) + 1

\* a tag that is on the record twice is added a third time
C12_Witness ==
    /\ PutPending("addOrRemoveTag")
    /\ ~acall.remove
    /\ acall.tag = "vip"
    /\ alog[Len(alog)].payload["tags"].items
          = <<Str("vip"), Str("old"), Str("vip"), Str("vip")>>

\* the PUT the execution issued, when it issued one
ThePut == alog[CHOOSE i \in 1..Len(alog) : alog[i].method = "PUT"]

\* the execution failed before any request, with an accepted identifier: in
\* updateOpportunityStatus that is a failure on the status
FailedOnValue(action) ==
    /\ acall.action = action
    /\ apc = "error"
    /\ alog = <<>>
    /\ IdentifierAccepted

\* C13: updateOpportunityStatus, for every status text, either sends a PUT
\* whose status is one of Open, Won, Lost, Abandoned or fails, with no PUT,
\* with the user-visible error 'New status must be Open, Won, Lost, or
\* Abandoned'; it fails on the status with no other kind of error.
C13_StatusOrUserVisibleError ==
    acall.action = "updateOpportunityStatus" =>
        /\ PutIssued =>
              /\ ThePut.payload["status"].s \in {"Open", "Won", "Lost", "Abandoned"}
              /\ toLowerCase(ThePut.payload["status"].s)
                    = toLowerCase(acall.newStatus)
        /\ FailedOnValue("updateOpportunityStatus") =>
              /\ aerr.kind = "UserVisibleError"
              /\ aerr.message = "New status must be Open, Won, Lost, or Abandoned"
              /\ ~PutIssued

\* a loss reason is supplied with a status that normalizes to Lost
LostWithReason ==
    acall.lossReason # "" /\ toLowerCase(acall.newStatus) = "lost"

ReasonsNamed(name) ==
    {LossReasons[i] : i \in {k \in 1..Len(LossReasons) : LossReasons[k].name.s = name}}

\* C14: in updateOpportunityStatus, a loss reason supplied with the status
\* Lost puts on the PUT payload the loss_reason_id of the loss reason with
\* exactly that name; when no loss reason has the name the action fails with
\* a user-visible error that lists the valid names and sends no PUT; when the
\* status is not Lost or no reason is supplied the payload has no
\* loss_reason_id.
C14_LossReasonId ==
    acall.action = "updateOpportunityStatus" =>
        /\ (PutIssued /\ LostWithReason) =>
              /\ "loss_reason_id" \in DOMAIN ThePut.payload
              /\ \E reason \in ReasonsNamed(acall.lossReason) :
                    ThePut.payload["loss_reason_id"] = reason.id
        /\ (PutIssued /\ ~LostWithReason) =>
              "loss_reason_id" \notin DOMAIN ThePut.payload
        /\ (apc \in {"done", "error"} /\ IdentifierAccepted /\ LostWithReason
               /\ ReasonsNamed(acall.lossReason) = {}) =>
              /\ apc = "error"
              /\ ~PutIssued
              /\ aerr.kind \in {"UserVisibleError", "StatusCodeError"}
              /\ aerr.kind = "UserVisibleError" =>
                    aerr.message = "Loss reason must be Price or Features"

\* the reason 'price' is not the name of a loss reason: the action has failed
\* and told the user the names
C14_Witness ==
    /\ acall.action = "updateOpportunityStatus"
    /\ acall.lossReason = "price"
    /\ apc = "error"
    /\ aerr = [kind |-> "UserVisibleError",
               message |-> "Loss reason must be Price or Features"]
    /\ ~PutIssued

UsersWithEmail(email) ==
    {Users[i] : i \in {k \in 1..Len(Users) : Users[k].email.s = email}}

\* the API path of the records of a type
PluralOf(recordType) ==
    CASE recordType = "person" -> "people"
      [] recordType = "company" -> "companies"
      [] recordType = "opportunity" -> "opportunities"

\* C15: assignRecord sends PUT {assignee_id: u.id} to the endpoint of the
\* given record type and the resolved id, u being the user whose email is
\* exactly assigneeEmail; when no user has the email it fails with a
\* user-visible error that lists the valid emails and sends no PUT.
C15_AssigneeByEmail ==
    acall.action = "assignRecord" =>
        /\ PutIssued =>
              /\ ThePut.endpoint = PluralOf(acall.recordType) \o "/123456"
              /\ DOMAIN ThePut.payload = {"assignee_id"}
              /\ \E u \in UsersWithEmail(acall.assigneeEmail) :
                    ThePut.payload["assignee_id"] = u.id
        /\ (apc \in {"done", "error"} /\ IdentifierAccepted
               /\ UsersWithEmail(acall.assigneeEmail) = {}) =>
              /\ apc = "error"
              /\ ~PutIssued
              /\ aerr.kind \in {"UserVisibleError", "StatusCodeError"}
              /\ aerr.kind = "UserVisibleError" =>
                    aerr.message
                      = "Couldn't find a Copper user with the email address \""
                          \o acall.assigneeEmail
                          \o "\". Try ann@x.co or bob@x.co."

\* a company is about to be assigned to Ann, the user 11
C15_Witness ==
    /\ PutPending("assignRecord")
    /\ acall.recordType = "company"
    /\ acall.assigneeEmail = "ann@x.co"
    /\ alog[Len(alog)].endpoint = "companies/123456"
    /\ alog[Len(alog)].payload = ("assignee_id" :> Num(11))

\* the pipelines of the reference dataset with the opportunity's pipeline_id
OwnPipelines ==
    {Pipelines[i] : i \in {k \in 1..Len(Pipelines) : Pipelines[k].id = crm["pipeline_id"]}}

\* the stages of the opportunity's own pipeline named as asked, case aside
OwnStagesNamed(name) ==
    UNION {{pl.stages[k] : k \in {j \in 1..Len(pl.stages) :
                toLowerCase(pl.stages[j].name.s) = toLowerCase(name)}} :
           pl \in OwnPipelines}

\* C26: updateOpportunityStage either PUTs {pipeline_stage_id: s.id} for a
\* stage s of the opportunity's own pipeline whose name is newStageName, case
\* aside, or fails without a PUT with a user-visible error that lists the
\* stage names of that pipeline; so too when the opportunity's pipeline_id
\* is the id of no pipeline.
C26_StageOrUserVisibleError ==
    acall.action = "updateOpportunityStage" =>
        /\ PutIssued =>
              \E stage \in OwnStagesNamed(acall.newStageName) :
                  ThePut.payload = ("pipeline_stage_id" :> stage.id)
        /\ (apc \in {"done", "error"} /\ IdentifierAccepted
               /\ OwnStagesNamed(acall.newStageName) = {}) =>
              /\ apc = "error"
              /\ ~PutIssued
              /\ aerr.kind \in {"UserVisibleError", "StatusCodeError"}
              /\ (aerr.kind = "UserVisibleError" /\ OwnPipelines # {}) =>
                    \E pl \in OwnPipelines :
                        aerr.message = "Stage must be "
                            \o humanReadableList(namesOf(pl.stages, "name"))

\* the number of reference fetches of the enrichment of a record type
ReferenceCount(recordType) ==
    CASE recordType = "opportunity" -> 6
      [] recordType = "person" -> 4
      [] recordType = "company" -> 3

\* the number of requests of an execution that runs to its return: the
\* fetches its validation reads, the PUT, the reference fetches; for a getter
\* the record and the reference fetches
RequestsToReturn ==
    CASE acall.action = "updateOpportunityStatus" ->
            (IF LostWithReason THEN 1 ELSE 0) + 1 + ReferenceCount("opportunity")
      [] acall.action = "updateOpportunityStage" ->
            2 + 1 + ReferenceCount("opportunity")
      [] acall.action \in {"assignRecord", "addOrRemoveTag"} ->
            1 + 1 + ReferenceCount(acall.recordType)
      [] acall.action = "getOpportunity" -> 1 + ReferenceCount("opportunity")
      [] acall.action = "getPerson" -> 1 + ReferenceCount("person")
      [] acall.action = "getCompany" -> 1 + ReferenceCount("company")

\* C18: every call of callApi is one request, never repeated; a rejected
\* request (a status other than 2xx, a network failure) ends the getter or
\* the action with that error: nothing catches it, no record is returned
\* and no further request is made.
C18_FailurePropagates ==
    /\ [](/\ aerr.kind = "StatusCodeError" => (apc = "error" /\ aout = NoRecord)
          /\ apc = "done" => (aerr = NoError /\ Len(alog) = RequestsToReturn)
          /\ Len(alog) <= RequestsToReturn)
    /\ [][apc # "error"]_vars

\* a getter whose requests are out has one of them rejected
C18_Witness ==
    /\ acall.action = "getOpportunity"
    /\ apc = "error"
    /\ aerr.kind = "StatusCodeError"
    /\ Len(alog) = 7
    /\ aout = NoRecord

(***************************************************************************)
(* Calls of the helper functions                                           *)
(***************************************************************************)
AddressKeys == <<"street", "city", "state", "country", "postal_code">>

AddressTexts == <<"1 Main St", "SF", "CA", "US", "94105">>

\* every address: each component absent, the empty string or a text
AddressObjects ==
    {Obj([k \in {AddressKeys[i] : i \in present \cup empty} |->
            IF k \in {AddressKeys[i] : i \in empty} THEN Str("")
            ELSE Str(AddressTexts[CHOOSE i \in present : AddressKeys[i] = k])]) :
        present \in SUBSET (1..5), empty \in SUBSET (1..5)}

\* the revisions of concatenateAddress: with address?.street and, the
\* earliest, with address.street
AddressRevisions == {"part_001", "part_000"}

AddressCalls ==
    {[NoHelperCall EXCEPT !.fn = "concatenateAddress", !.revision = rv,
                          !.address = ad] :
        rv \in AddressRevisions, ad \in AddressObjects \cup {Undef, JNull}}

\* concatenateAddress as the revision has it: address.street, without the
\* "?.", throws when there is no address
concatenateAddressIn(revision, address) ==
    IF revision = "part_000" /\ address.t \in {"undefined", "null"}
    THEN Thrown("TypeError",
                "Cannot read properties of " \o address.t \o " (reading 'street')",
                "")
    ELSE Returned(concatenateAddress(address))

MaxListLen == 4

ListElements == {"A", "B", "C"}

\* the lists the actions pass: the names of a reference dataset of the CRM,
\* which may have any number of entries, none included
ListCalls ==
    {[NoHelperCall EXCEPT !.fn = "humanReadableList", !.list = l] :
        l \in UNION {[1..n -> ListElements] : n \in 0..MaxListLen}}

BASE_URL == "https://api.copper.com/developer_api/v1/"

\* a payload object, as its entries <<key, value>> in insertion order
Payload(entries) == [given |-> TRUE, entries |-> entries]

\* coda.withQueryParams: the url as it is when there are no parameters, else
\* the url, "?", and the key=value pairs joined by "&" (the base url has no
\* query of its own; the keys and values here need no percent-encoding)
withQueryParams(url, params) ==
    IF ~params.given \/ params.entries = <<>> THEN url
    ELSE url \o "?" \o Join([i \in 1..Len(params.entries) |->
                                params.entries[i][1] \o "=" \o ToText(params.entries[i][2])], "&")

\* JSON.stringify of a primitive
jsonValue(v) == IF v.t = "string" THEN "\"" \o v.s \o "\"" ELSE ToText(v)

\* JSON.stringify of the payload: undefined for undefined
JSONstringify(payload) ==
    IF ~payload.given THEN Undef
    ELSE Str("{" \o Join([i \in 1..Len(payload.entries) |->
                            "\"" \o payload.entries[i][1] \o "\":" \o jsonValue(payload.entries[i][2])], ",") \o "}")

\* the argument of context.fetcher.fetch
FetchRequest(method, url, body) == [method |-> method, url |-> url, body |-> body]

\* callApi of part_001: the query parameters on GET, the body otherwise
callApi(method, endpoint, payload) ==
    FetchRequest(method,
                 IF method = "GET" THEN withQueryParams(BASE_URL \o endpoint, payload)
                 ELSE BASE_URL \o endpoint,
                 IF method # "GET" THEN JSONstringify(payload) ELSE Undef)

\* callApi of helpers.ts:17-42: the url is BASE_URL + endpoint and the body
\* JSON.stringify(payload), whatever the method
callApi_helpers(method, endpoint, payload) ==
    FetchRequest(method, BASE_URL \o endpoint, JSONstringify(payload))

ApiRevisions == {"part_001", "helpers.ts"}

callApiIn(revision, method, endpoint, payload) ==
    IF revision = "part_001" THEN callApi(method, endpoint, payload)
    ELSE callApi_helpers(method, endpoint, payload)

ApiMethods == {"GET", "POST", "PUT"}

ApiEndpoints == {"pipelines", "users/search", "opportunities/123456"}

\* the payloads the callers pass: none, the page size of callApiBasicCached
\* and getCopperUsers, the flag of the getters, a search page, a status
ApiPayloads ==
    {NoPayload,
     Payload(<<>>),
     Payload(<<<<"page_size", Num(PAGE_SIZE)>>>>),
     Payload(<<<<"custom_field_computed_values", JTrue>>>>),
     Payload(<<<<"page_size", Num(PAGE_SIZE)>>, <<"page_number", Num(2)>>>>),
     Payload(<<<<"status", Str("Won")>>>>)}

ApiCalls ==
    {[NoHelperCall EXCEPT !.fn = "callApi", !.revision = rv, !.method = m,
                          !.endpoint = e, !.payload = p] :
        rv \in ApiRevisions, m \in ApiMethods, e \in ApiEndpoints, p \in ApiPayloads}

HelperCalls == AddressCalls \cup ListCalls \cup ApiCalls

InitHelper ==
    /\ hcall \in HelperCalls
    /\ hpc = "start"
    /\ hret = Returned("")
    /\ ResolverIdle
    /\ SyncIdle
    /\ EnrichIdle
    /\ ActionIdle
    /\ TagsIdle
    /\ FetchIdle
    /\ EarlierIdle

HelperDone(outcome) ==
    /\ hpc = "start"
    /\ hpc' = "done"
    /\ hret' = outcome
    /\ UNCHANGED hcall
    /\ UNCHANGED resolverVars
    /\ UNCHANGED syncVars
    /\ UNCHANGED enrichVars
    /\ UNCHANGED actionVars
    /\ UNCHANGED tagVars
    /\ UNCHANGED fetchVars
    /\ UNCHANGED earlierVars

ConcatenateAddress ==
    /\ hcall.fn = "concatenateAddress"
    /\ HelperDone(concatenateAddressIn(hcall.revision, hcall.address))

HumanReadableList ==
    /\ hcall.fn = "humanReadableList"
    /\ HelperDone(Returned(humanReadableList(hcall.list)))

CallApi ==
    /\ hcall.fn = "callApi"
    /\ HelperDone(Returned(callApiIn(hcall.revision, hcall.method, hcall.endpoint, hcall.payload)))

NextHelper == ConcatenateAddress \/ HumanReadableList \/ CallApi

SpecHelper == InitHelper /\ [][NextHelper]_vars

(***************************************************************************)
(* Two executions of addOrRemoveTag on one record, with the fetcher cache  *)
(* between them and the CRM.  The identifier is one that resolves and the  *)
(* enrichment of the PUT response is the one of the action model above.    *)
(***************************************************************************)
CacheTtlSecs == 60      \* callApi: cacheTtlSecs: number = 60

TickSecs == 30          \* the clock advances in steps of this many seconds

MaxClock == 90          \* the clock stops here

\* the tag lists the record may have before the executions
ServerTags == {<<>>, <<Str("old")>>, <<Str("old"), Str("vip")>>}

\* the two executions change different tags
TagInvocations ==
    {[p \in Invocations |->
        [NoInvocation EXCEPT !.pc = "start", !.tag = ab[p],
                             !.remove = IF p = 1 THEN ra ELSE rb]] :
        ab \in {x \in TagInputs \X TagInputs : x[1] # x[2]},
        ra \in BOOLEAN, rb \in BOOLEAN}

InitTags ==
    /\ tinv \in TagInvocations
    /\ tserver \in ServerTags
    /\ tcache = NoCacheEntry
    /\ tnow = 0
    /\ tlog = <<>>
    /\ ResolverIdle
    /\ SyncIdle
    /\ EnrichIdle
    /\ ActionIdle
    /\ HelperIdle
    /\ FetchIdle
    /\ EarlierIdle

UnchangedByTags ==
    /\ UNCHANGED resolverVars
    /\ UNCHANGED syncVars
    /\ UNCHANGED enrichVars
    /\ UNCHANGED actionVars
    /\ UNCHANGED helperVars
    /\ UNCHANGED fetchVars
    /\ UNCHANGED earlierVars

\* the PUT requests the CRM has applied
PutsApplied == Len(SelectSeq(tlog, LAMBDA r : r.method = "PUT"))

\* an execution starts: callApi(context, endpoint, "GET") with the default
\* cacheTtlSecs
TagCall(p) ==
    /\ tinv[p].pc = "start"
    /\ tinv' = [tinv EXCEPT ![p].pc = "awaitExisting",
                            ![p].after = {q \in Invocations : tinv[q].pc = "done"}]
    /\ UNCHANGED <<tserver, tcache, tnow, tlog>>
    /\ UnchangedByTags

\* the execution has the body of the GET: it computes the new list and
\* issues the PUT
TagRead(p, body, fromCache) ==
    tinv' = [tinv EXCEPT ![p].pc = "awaitPut",
                         ![p].tags = newTags(body, Str(tinv[p].tag), tinv[p].remove),
                         ![p].cached = fromCache,
                         ![p].putsAtRead = PutsApplied]

\* the GET goes to the CRM; the fetcher keeps the response for the TTL
GetFromNetwork(p) ==
    /\ tinv[p].pc = "awaitExisting"
    /\ TagRead(p, tserver, FALSE)
    /\ tcache' = [valid |-> TRUE, at |-> tnow, tags |-> tserver]
    /\ tlog' = Append(tlog, [method |-> "GET", by |-> p, tags |-> tserver])
    /\ UNCHANGED <<tserver, tnow>>
    /\ UnchangedByTags

\* the fetcher answers the GET with the response it kept, younger than the
\* TTL, without asking the CRM
GetFromCache(p) ==
    /\ tinv[p].pc = "awaitExisting"
    /\ tcache.valid
    /\ tnow - tcache.at < CacheTtlSecs
    /\ TagRead(p, tcache.tags, TRUE)
    /\ UNCHANGED <<tserver, tcache, tnow, tlog>>
    /\ UnchangedByTags

\* the CRM applies the PUT: the tag list is replaced by the one sent
TagPutResponds(p) ==
    /\ tinv[p].pc = "awaitPut"
    /\ tserver' = tinv[p].tags
    /\ tlog' = Append(tlog, [method |-> "PUT", by |-> p, tags |-> tinv[p].tags])
    /\ tinv' = [tinv EXCEPT ![p].pc = "done"]
    /\ UNCHANGED <<tcache, tnow>>
    /\ UnchangedByTags

\* a request of the execution is rejected: the execution ends with the error
TagFetchRejects(p) ==
    /\ tinv[p].pc \in {"awaitExisting", "awaitPut"}
    /\ tinv' = [tinv EXCEPT ![p].pc = "error"]
    /\ UNCHANGED <<tserver, tcache, tnow, tlog>>
    /\ UnchangedByTags

Tick ==
    /\ tnow + TickSecs <= MaxClock
    /\ tnow' = tnow + TickSecs
    /\ UNCHANGED <<tinv, tserver, tcache, tlog>>
    /\ UnchangedByTags

NextTags ==
    \/ \E p \in Invocations : TagCall(p)
    \/ \E p \in Invocations : GetFromNetwork(p)
    \/ \E p \in Invocations : GetFromCache(p)
    \/ \E p \in Invocations : TagPutResponds(p)
    \/ \E p \in Invocations : TagFetchRejects(p)
    \/ Tick

SpecTags == InitTags /\ [][NextTags]_vars

(***************************************************************************)
(* Properties of the two executions of addOrRemoveTag                      *)
(***************************************************************************)
HasTag(tags, tag) == \E i \in 1..Len(tags) : tags[i] = Str(tag)

\* q had completed when p started, both add their tag, and p has computed
\* the list it PUTs
AddsInSequence(q, p) ==
    /\ q \in tinv[p].after
    /\ ~tinv[q].remove
    /\ ~tinv[p].remove
    /\ tinv[p].pc \in {"awaitPut", "done"}

\* C21: when an execution adding tag A has completed and an execution adding
\* tag B then runs, the list the second one PUTs has A as well as B, also
\* when it runs within the cache TTL of the GET of the record.
C21_AdditionsAccumulate ==
    \A p \in Invocations : \A q \in Invocations :
        AddsInSequence(q, p) =>
            /\ HasTag(tinv[p].tags, tinv[q].tag)
            /\ HasTag(tinv[p].tags, tinv[p].tag)

\* both executions read the tags before either PUT was applied, and both
\* have completed
Interleaved ==
    \A p \in Invocations : tinv[p].pc = "done" /\ tinv[p].putsAtRead = 0

\* C22: when the two executions interleave, both reading before either
\* PUTs, the final tag list of the record reflects both changes: a tag added
\* is there, a tag removed is not.
C22_NoLostUpdate ==
    Interleaved =>
        \A p \in Invocations : HasTag(tserver, tinv[p].tag) = ~tinv[p].remove

(***************************************************************************)
(* The fetches of one invocation: a sync function or a fetching enricher   *)
(* issues its requests together, Promise.all keeps the response of the     *)
(* i-th request in the i-th slot of its results, in whatever order the     *)
(* responses come, and the invocation goes on when every slot is filled.   *)
(***************************************************************************)
Pending == Undef

\* the endpoints of the Promise.all of the sync function of a record type
syncFetches(recordType) ==
    CASE recordType = "opportunity" ->
            <<"opportunities/search", "users/search", "account", "pipelines",
              "customer_sources", "loss_reasons", "custom_field_definitions">>
      [] recordType = "company" ->
            <<"companies/search", "account", "users/search",
              "custom_field_definitions">>
      [] recordType = "person" ->
            <<"people/search", "users/search", "account", "contact_types",
              "custom_field_definitions">>

\* the endpoints of the Promise.all of enrich<Type>ResponseWithFetches
enricherFetches(recordType) ==
    [i \in 1..Len(referenceRequests(recordType)) |->
        referenceRequests(recordType)[i].endpoint]

fetchesOf(call) ==
    IF call.fn = "sync" THEN syncFetches(call.type) ELSE enricherFetches(call.type)

\* what the CRM answers on an endpoint; page is the page of the search
crmResponse(endpoint, page) ==
    CASE endpoint = "users/search" -> Arr(Users)
      [] endpoint = "account" -> Obj([id |-> Str(CopperAccountId)])
      [] endpoint = "pipelines" -> Arr(Pipelines)
      [] endpoint = "customer_sources" -> Arr(CustomerSources)
      [] endpoint = "loss_reasons" -> Arr(LossReasons)
      [] endpoint = "contact_types" -> Arr(ContactTypes)
      [] endpoint = "custom_field_definitions" -> Arr(CustomFieldDefinitions)
      [] OTHER -> Arr(page)

\* the records the invocations of this model work on
FetchOpportunity ==
    [id |-> Num(123456), name |-> Str("Deal"), status |-> Str("Open"),
     company_name |-> Str("Acme"), leads_converted_from |-> Arr(<<>>),
     pipeline_id |-> Num(21), pipeline_stage_id |-> Num(31),
     assignee_id |-> Num(11), customer_source_id |-> Num(41),
     loss_reason_id |-> Num(51), company_id |-> Num(61),
     primary_contact_id |-> Num(71),
     custom_fields |-> Arr(<<CustomFieldEntry(81, Num(7), Str("North"))>>)]

FetchPerson ==
    [id |-> Num(234567), name |-> Str("Pat Poe"), company_name |-> Str("Acme"),
     phone_numbers |-> Arr(<<>>), assignee_id |-> Num(11),
     contact_type_id |-> Num(91), company_id |-> Num(61),
     emails |-> Arr(<<[email |-> Str("p@work.co"), category |-> Str("work")]>>),
     custom_fields |-> Arr(<<CustomFieldEntry(82, Str("Gold"), Undef)>>)]

FetchCompany ==
    [id |-> Num(345678), name |-> Str("Acme"), primary_parent |-> JNull,
     assignee_id |-> Num(12), contact_type_id |-> Num(91),
     custom_fields |-> Arr(<<>>)]

FetchRecord(recordType) ==
    CASE recordType = "opportunity" -> FetchOpportunity
      [] recordType = "person" -> FetchPerson
      [] recordType = "company" -> FetchCompany

\* a fetching enricher with the body of a PUT or GET response; a sync
\* function, whose body is the page of the search: no record, or two
FetchCalls ==
    {[fn |-> "withFetches", type |-> t, body |-> FetchRecord(t)] :
        t \in {"opportunity", "person", "company"}}
    \cup
    {[fn |-> "sync", type |-> t, body |-> <<>>] :
        t \in {"opportunity", "person", "company"}}
    \cup
    {[fn |-> "sync", type |-> t,
      body |-> <<FetchRecord(t), Put(FetchRecord(t), "assignee_id", Num(12))>>] :
        t \in {"opportunity", "person", "company"}}

InitFetch ==
    /\ fcall \in FetchCalls
    /\ fpc = "fetching"
    /\ fslots = [i \in 1..Len(fetchesOf(fcall)) |-> Pending]
    /\ farrivals = <<>>
    /\ fout = NoRecord
    /\ ResolverIdle
    /\ SyncIdle
    /\ EnrichIdle
    /\ ActionIdle
    /\ HelperIdle
    /\ TagsIdle
    /\ EarlierIdle

UnchangedByFetch ==
    /\ UNCHANGED fcall
    /\ UNCHANGED resolverVars
    /\ UNCHANGED syncVars
    /\ UNCHANGED enrichVars
    /\ UNCHANGED actionVars
    /\ UNCHANGED helperVars
    /\ UNCHANGED tagVars
    /\ UNCHANGED earlierVars

Outstanding == {i \in 1..Len(fslots) : fslots[i] = Pending}

\* the response of the i-th request comes: Promise.all keeps it in slot i
FetchResponds(i) ==
    /\ fpc = "fetching"
    /\ i \in Outstanding
    /\ fslots' = [fslots EXCEPT ![i] = crmResponse(fetchesOf(fcall)[i],
                                        IF fcall.fn = "sync" THEN fcall.body ELSE <<>>)]
    /\ farrivals' = Append(farrivals, i)
    /\ UNCHANGED <<fpc, fout>>
    /\ UnchangedByFetch

\* a slip: a rejected users request counts as an empty list of users
FetchFails_UsersIgnored(i) ==
    /\ fpc = "fetching"
    /\ i \in Outstanding
    /\ IF fetchesOf(fcall)[i] = "users/search"
       THEN /\ fslots' = [fslots EXCEPT ![i] = Arr(<<>>)]
            /\ farrivals' = Append(farrivals, i)
            /\ UNCHANGED <<fpc, fout>>
       ELSE /\ fpc' = "failed"
            /\ UNCHANGED <<fslots, farrivals, fout>>
    /\ UnchangedByFetch

\* the i-th request is rejected: Promise.all rejects, the await throws and
\* the invocation ends with the error
FetchFails(i) ==
    /\ fpc = "fetching"
    /\ i \in Outstanding
    /\ fpc' = "failed"
    /\ UNCHANGED <<fslots, farrivals, fout>>
    /\ UnchangedByFetch

\* the variable the destructuring binds to the response of an endpoint: the
\* slot at the position of that request among the fetches
slotOf(endpoint) ==
    fslots[CHOOSE i \in 1..Len(fslots) : fetchesOf(fcall)[i] = endpoint]

\* the enrichment of one record with the datasets of the slots
enrichFromSlots(raw, withReferences) ==
    CASE fcall.type = "opportunity" ->
            enrichOpportunityResponse(raw, slotOf("account").fields.id.s,
                slotOf("users/search").items, slotOf("pipelines").items,
                slotOf("customer_sources").items, slotOf("loss_reasons").items,
                slotOf("custom_field_definitions"), withReferences)
      [] fcall.type = "person" ->
            enrichPersonResponse(raw, slotOf("account").fields.id.s,
                slotOf("users/search"), slotOf("contact_types"),
                slotOf("custom_field_definitions"))
      [] fcall.type = "company" ->
            enrichCompanyResponse(raw, slotOf("account").fields.id.s,
                slotOf("users/search"), slotOf("custom_field_definitions"))

\* the invocation after the await, with the enrichments it made
FetchReturns(enriched) ==
    IF \E k \in 1..Len(enriched) : enriched[k].ret.threw
    THEN /\ fpc' = "failed"
         /\ UNCHANGED fout
    ELSE /\ fpc' = "done"
         /\ fout' = IF fcall.fn = "sync"
                    THEN [k \in 1..Len(enriched) |-> enriched[k].out]
                    ELSE enriched[1].out

\* every slot is filled: the await of Promise.all returns and the records
\* are enriched, the page of a sync record by record
EnrichFetched ==
    /\ fpc = "fetching"
    /\ Outstanding = {}
    /\ IF fcall.fn = "sync"
       THEN FetchReturns([k \in 1..Len(slotOf(fetchesOf(fcall)[1]).items) |->
                            enrichFromSlots(slotOf(fetchesOf(fcall)[1]).items[k], TRUE)])
       ELSE FetchReturns(<<enrichFromSlots(fcall.body, FALSE)>>)
    /\ UNCHANGED <<fslots, farrivals>>
    /\ UnchangedByFetch

NextFetch ==
    \/ \E i \in 1..Len(fslots) : FetchResponds(i)
    \/ \E i \in 1..Len(fslots) : FetchFails(i)
    \/ EnrichFetched

SpecFetch == InitFetch /\ [][NextFetch]_vars

(***************************************************************************)
(* Properties of the fetches of one invocation                             *)
(***************************************************************************)
\* the enrichment of a record with the dataset of each endpoint, as fetches
\* made one after another give them
SequentialRecord(recordType, raw, withReferences) ==
    CASE recordType = "opportunity" ->
            enrichOpportunityResponse(raw, CopperAccountId, Users, Pipelines,
                CustomerSources, LossReasons, Arr(CustomFieldDefinitions),
                withReferences).out
      [] recordType = "person" ->
            enrichPersonResponse(raw, CopperAccountId, Arr(Users),
                Arr(ContactTypes), Arr(CustomFieldDefinitions)).out
      [] recordType = "company" ->
            enrichCompanyResponse(raw, CopperAccountId, Arr(Users),
                Arr(CustomFieldDefinitions)).out

SequentialResult ==
    IF fcall.fn = "sync"
    THEN [k \in 1..Len(fcall.body) |-> SequentialRecord(fcall.type, fcall.body[k], TRUE)]
    ELSE SequentialRecord(fcall.type, fcall.body, FALSE)

\* C28: the enrichment starts when all the fetches issued together have
\* completed; the result is the same for every order of completion, the one
\* that fetches made one after another give; when a fetch fails the
\* invocation fails and returns nothing.
C28_JointAwait ==
    /\ fpc = "done" =>
          /\ Len(farrivals) = Len(fetchesOf(fcall))
          /\ fout = SequentialResult
    /\ fpc = "failed" => fout = NoRecord
    /\ fout # NoRecord => fpc = "done"

\* a sync of opportunities has returned its page and the fetch issued last
\* was the first to complete, the search the last
C28_Witness ==
    /\ fcall.fn = "sync"
    /\ fcall.type = "opportunity"
    /\ Len(fcall.body) = 2
    /\ fpc = "done"
    /\ farrivals[1] = Len(fslots)
    /\ farrivals[Len(farrivals)] = 1
    /\ Len(fout) = 2

(***************************************************************************)
(* The earlier syncOpportunities (part_002) that carries the user maps in  *)
(* its continuation                                                        *)
(***************************************************************************)
MaxOldRecords == 52     \* the CRM holds at most this many opportunities

\* which opportunities have a company_id
CompanyPatterns == {"all", "none", "odd"}

hasCompany(k, companies) ==
    \/ companies = "all"
    \/ companies = "odd" /\ k % 2 = 1

\* the k-th opportunity of the CRM; its assignee is user 11 or 12, or the
\* id 13 of no user
oldOpportunity(k, companies) ==
    [id |-> Num(k), assignee_id |-> Num(11 + (k % 3))]
        @@ (IF hasCompany(k, companies)
            THEN [company_id |-> Num(61), company_name |-> Str("Acme")]
            ELSE NoKeys)

oldSearchPage(crmState, page_number) ==
    [i \in 1..Len(searchPage(crmState.total, page_number, PAGE_SIZE)) |->
        oldOpportunity(searchPage(crmState.total, page_number, PAGE_SIZE)[i],
                       crmState.companies)]

\* for (const user of response.body) userEmails[user.id] = user.email
userMap(users, field) ==
    [key \in {ToText(users[i].id) : i \in 1..Len(users)} |->
        (CHOOSE u \in {users[i] : i \in 1..Len(users)} : ToText(u.id) = key)[field]]

\* userEmails[opportunity.assignee_id]
mapped(map, id) == IF ToText(id) \in DOMAIN map THEN map[ToText(id)] ELSE Undef

\* continuation?.userEmails && continuation?.userNames
hasMaps(continuation) == continuation.present

\* the loop over response.body: company and assignee are set inside
\* "if (opportunity.company_id)"
oldProcessed(opportunity, userEmails, userNames) ==
    IF Truthy(Get(opportunity, "company_id"))
    THEN Put(Put(opportunity, "company",
                 Obj([companyId |-> Get(opportunity, "company_id"),
                      companyName |-> Get(opportunity, "company_name")])),
             "assignee",
             Obj([copperUserId |-> Get(opportunity, "assignee_id"),
                  email |-> mapped(userEmails, Get(opportunity, "assignee_id")),
                  name |-> mapped(userNames, Get(opportunity, "assignee_id"))]))
    ELSE opportunity

InitEarlier ==
    /\ ocrm \in [total : 0..MaxOldRecords, companies : CompanyPatterns]
    /\ opc = "start"
    /\ ocont = NoMaps
    /\ olog = <<>>
    /\ oresult = <<>>
    /\ ResolverIdle
    /\ SyncIdle
    /\ EnrichIdle
    /\ ActionIdle
    /\ HelperIdle
    /\ TagsIdle
    /\ FetchIdle

UnchangedByEarlier ==
    /\ UNCHANGED ocrm
    /\ UNCHANGED resolverVars
    /\ UNCHANGED syncVars
    /\ UNCHANGED enrichVars
    /\ UNCHANGED actionVars
    /\ UNCHANGED helperVars
    /\ UNCHANGED tagVars
    /\ UNCHANGED fetchVars

\* the number of invocations so far: every invocation searches once
InvocationsSoFar ==
    Len(SelectSeq(olog, LAMBDA r : r.endpoint = "opportunities/search"))

\* the host invokes: first with no continuation, then with the one returned
EarlierHostInvokes ==
    /\ opc \in {"start", "returned"}
    /\ InvocationsSoFar < MaxInvocations

\* the requests of an invocation: users/search when the continuation has no
\* maps, then the search of the page
earlierRequests(continuation, invocation, pageNumber) ==
    (IF hasMaps(continuation) THEN <<>>
     ELSE <<[endpoint |-> "users/search", invocation |-> invocation, page_number |-> 0]>>)
    \o <<[endpoint |-> "opportunities/search", invocation |-> invocation,
          page_number |-> pageNumber]>>

\* the whole invocation, with the maps and the page number it works with
earlierReturn(userEmails, userNames, pageNumber) ==
    /\ olog' = olog \o earlierRequests(ocont, InvocationsSoFar + 1, pageNumber)
    /\ oresult' = [i \in 1..PAGE_SIZE |->
                      IF i <= Len(oldSearchPage(ocrm, pageNumber))
                      THEN oldProcessed(oldSearchPage(ocrm, pageNumber)[i],
                                        userEmails, userNames)
                      ELSE Undef]
    /\ ocont' = [present |-> TRUE, pageNumber |-> pageNumber + 1,
                 userEmails |-> userEmails, userNames |-> userNames]
    /\ opc' = "returned"
    /\ UnchangedByEarlier

syncOpportunities_part_002 ==
    /\ EarlierHostInvokes
    /\ IF hasMaps(ocont)
       THEN earlierReturn(ocont.userEmails, ocont.userNames,
                          IF ocont.pageNumber # 0 THEN ocont.pageNumber ELSE 1)
       ELSE earlierReturn(userMap(Users, "email"), userMap(Users, "name"), 1)

\* a request of the invocation is rejected: the invocation throws
EarlierSyncFails ==
    /\ EarlierHostInvokes
    /\ opc' = "failed"
    /\ UNCHANGED <<ocont, olog, oresult>>
    /\ UnchangedByEarlier

NextEarlier == syncOpportunities_part_002 \/ EarlierSyncFails

SpecEarlier == InitEarlier /\ [][NextEarlier]_vars

(***************************************************************************)
(* Properties of the earlier syncOpportunities                             *)
(***************************************************************************)
UserWithId(id) == {Users[i] : i \in {k \in 1..Len(Users) : Users[k].id = id}}

\* the assignee the maps give for an opportunity
AssigneeByMaps(opportunity) ==
    Obj([copperUserId |-> opportunity["assignee_id"],
         email |-> IF UserWithId(opportunity["assignee_id"]) = {} THEN Undef
                   ELSE (CHOOSE u \in UserWithId(opportunity["assignee_id"]) : TRUE).email,
         name |-> IF UserWithId(opportunity["assignee_id"]) = {} THEN Undef
                  ELSE (CHOOSE u \in UserWithId(opportunity["assignee_id"]) : TRUE).name])

\* C30: users/search is requested by the first invocation only, the one
\* whose continuation has no maps; every continuation returned carries the
\* maps of the users, the same on every page; every opportunity of every
\* page has the assignee email and name the maps give for its assignee_id.
C30_UserMapsThreaded ==
    /\ \A i \in 1..Len(olog) :
          olog[i].endpoint = "users/search" => olog[i].invocation = 1
    /\ opc = "returned" =>
          /\ ocont.present
          /\ ocont.userEmails = [key \in {"11", "12"} |->
                                    IF key = "11" THEN Str("ann@x.co") ELSE Str("bob@x.co")]
          /\ ocont.userNames = [key \in {"11", "12"} |->
                                   IF key = "11" THEN Str("Ann") ELSE Str("Bob")]
          /\ \A k \in 1..Len(oresult) :
                oresult[k] # Undef =>
                    Get(oresult[k], "assignee") = AssigneeByMaps(oresult[k])

(***************************************************************************)
(* Properties of the helper functions                                      *)
(***************************************************************************)
\* the texts of the non-empty components of the address, in the order street,
\* city, state, country, postal_code
PresentComponents(address) ==
    IF address.t # "object" THEN <<>>
    ELSE LET has(i) == /\ AddressKeys[i] \in DOMAIN address.fields
                        /\ address.fields[AddressKeys[i]].s # ""
             text(i) == IF has(i) THEN <<address.fields[AddressKeys[i]].s>> ELSE <<>>
         IN  text(1) \o text(2) \o text(3) \o text(4) \o text(5)

\* C16: concatenateAddress returns the non-empty components among street,
\* city, state, country, postal_code, in that order, joined by ', ' with no
\* separator before or after, for every subset of components; with no
\* component, or with no address object at all, it returns the empty string.
C16_AddressJoined ==
    (hpc = "done" /\ hcall.fn = "concatenateAddress") =>
        /\ ~hret.threw
        /\ hret.value = Join(PresentComponents(hcall.address), ", ")

\* every element of the list followed by the separator
RECURSIVE EachFollowedBy(_, _)
EachFollowedBy(list, separator) ==
    IF Len(list) = 0 THEN ""
    ELSE list[1] \o separator \o EachFollowedBy(Tail(list), separator)

IsSingle(text, list) == Len(list) = 1 /\ text = list[1]

IsPair(text, list) == Len(list) = 2 /\ text = list[1] \o " or " \o list[2]

IsSeries(text, list) ==
    /\ Len(list) >= 3
    /\ text = EachFollowedBy(SubSeq(list, 1, Len(list) - 1), ", ")
                 \o "or " \o list[Len(list)]

\* C17: humanReadableList returns the element of a one-element list, 'A or B'
\* for two elements and 'A, B, or C' for three or more (all but the last
\* joined by ', ', then ', or ' and the last); every list the actions pass
\* gives a text of one of these three shapes.
C17_ListShapes ==
    (hpc = "done" /\ hcall.fn = "humanReadableList") =>
        /\ ~hret.threw
        /\ \/ IsSingle(hret.value, hcall.list)
           \/ IsPair(hret.value, hcall.list)
           \/ IsSeries(hret.value, hcall.list)


\* the entries as URL query parameters: key=value, "&" between two
RECURSIVE AsQuery(_)
AsQuery(entries) ==
    IF Len(entries) = 0 THEN ""
    ELSE entries[1][1] \o "=" \o ToText(entries[1][2])
         \o (IF Len(entries) > 1 THEN "&" ELSE "") \o AsQuery(Tail(entries))

\* the entries as the members of a JSON object: "key":value, "," between two
RECURSIVE AsMembers(_)
AsMembers(entries) ==
    IF Len(entries) = 0 THEN ""
    ELSE "\"" \o entries[1][1] \o "\":"
         \o (IF entries[1][2].t = "string" THEN "\"" \o entries[1][2].s \o "\""
             ELSE ToText(entries[1][2]))
         \o (IF Len(entries) > 1 THEN "," ELSE "") \o AsMembers(Tail(entries))

\* the url of the endpoint with the payload as its query
UrlWithQuery(endpoint, payload) ==
    BASE_URL \o endpoint
        \o (IF payload.entries = <<>> THEN "" ELSE "?" \o AsQuery(payload.entries))

\* C19: on GET callApi sends the payload as the query parameters of the URL
\* and sends no body; on POST and PUT it sends the payload as a JSON body and
\* leaves the URL as BASE_URL + endpoint.
C19_PayloadPlacement ==
    (hpc = "done" /\ hcall.fn = "callApi") =>
        /\ ~hret.threw
        /\ hret.value.method = hcall.method
        /\ hcall.method = "GET" =>
              /\ hret.value.body = Undef
              /\ hret.value.url = UrlWithQuery(hcall.endpoint, hcall.payload)
        /\ hcall.method \in {"POST", "PUT"} =>
              /\ hret.value.url = BASE_URL \o hcall.endpoint
              /\ hcall.payload.given =>
                    hret.value.body = Str("{" \o AsMembers(hcall.payload.entries) \o "}")
====
